---------------------------- MODULE Spec2Model ----------------------------
(***************************************************************************)
(* Model of the HOTSPOT KEYBOARD & MOUSE server (src/server): the pairing  *)
(* authenticator (auth.py), the single-client session gate                 *)
(* (connection.py), the TCP control listener, the UDP input listener       *)
(* (network.py), the discovery responder (discovery.py) and the glue that  *)
(* wires them together (main.py).                                          *)
(*                                                                         *)
(* Several specifications are defined over the same variables, among them *)
(*   GateSpec    drives AuthManager and ConnectionManager directly through *)
(*               their public methods, with arbitrary arguments;           *)
(*   Spec        is the running server: threads, sockets and callbacks;    *)
(*   PointerSpec drives the pointer smoother and its discharge loop;       *)
(*   WriterSpec  follows the threads through the smoother's lock and the   *)
(*               writes to the uinput fds;                                 *)
(*   StopSpec    follows the loops of the server through stop().           *)
(***************************************************************************)
EXTENDS Integers, Sequences, FiniteSets, TLC

(***************************************************************************)
(* Bounds of the model.                                                    *)
(***************************************************************************)
\* validity window of a pairing code in clock ticks (config.AUTH_TIMEOUT, scaled)
AuthTimeout == 1
\* most whitespace characters on either side of an argument of validate_code
MaxPad == 1
\* largest magnitude a smoother charge reaches in Spec
MaxCharge == 1

\* most add_movement calls made directly on the smoother
MaxMoves == 2
\* last frame period in which such a call arrives
LastInputFrame == 3
\* last value of the frame clock
MaxFrame == 60
\* last frame period in which a second call arrives in PointerSpec
LastTurnFrame == 15
\* most events in the logs of the uinput fds when a Sink call starts
MaxWrites == 3
\* most failing writes to a uinput fd
MaxFailures == 1
\* last frame the discharge thread runs at the level of its lock
LastLockFrame == 6

\* TCPControlListener.start: self._socket.listen(1)
LISTEN_BACKLOG == 1
\* _handle_client: client_socket.recv(1024)
RECV_SIZE == 1024

\* last value of the wall clock
MaxTime == AuthTimeout + 1

(***************************************************************************)
(* Values.                                                                 *)
(***************************************************************************)
\* config.AUTH_CODE_LENGTH: a pairing code has six decimal digits
AUTH_CODE_LENGTH == 6
\* str.strip() removes these
Whitespace == {" "}

\* Python's None for an Optional[str] / Optional[float] / Optional[socket]
NoCode == <<"None">>
NoTime == -1
NoHost == "None"
NoSock == "None"
\* the discovery socket before anything was received: nothing waits in it
NoStream == [wire |-> <<>>, sent |-> FALSE, buffer |-> <<>>, received |-> <<>>,
             processed |-> <<>>, calls |-> <<>>]
NoDatagram == [message |-> <<>>, after_disconnect |-> FALSE, read |-> TRUE]

\* no thread: the holder of a free lock
NoThread == "None"
\* the threads that call the Sink: the pointer discharge loop, the scroll
\* discharge loop and the TCP client handler
Writers == {"pointer", "scroll", "tcp"}
\* the threads of the server: the writers, the UDP input loop, the TCP accept
\* loop and the discovery loop
Threads == Writers \cup {"udp", "accept", "discovery"}
\* a thread at the top of its loop, nothing written yet
NoThreads ==
    [lock |-> NoThread,
     at |-> [t \in Threads |-> "loop"],
     todo |-> [t \in Writers |-> <<>>],
     arg |-> <<>>,
     mouse |-> <<>>,
     keyboard |-> <<>>,
     closed |-> [fd \in {"mouse", "keyboard"} |-> FALSE],
     failures |-> 0,
     running |-> [t \in {"pointer", "scroll"} |-> FALSE],
     open |-> {}]

\* peers on the network, named by their IP address
Hosts == {"10.0.0.1", "10.0.0.2"}
\* socket objects handed to try_connect in GateSpec
Socks == {"sockA", "sockB"}
\* the socket accept() returns for a peer's connection
SockOf(h) == h

SeqsUpTo(S, n) == UNION {[1..k -> S] : k \in 0..n}
\* the strings random.choices returns in the model: two of the 10^6 codes
Codes ==
    {c \in {<<"1", "4", "7", "2", "5", "8">>, <<"0", "0", "0", "0", "0", "0">>} :
        Len(c) = AUTH_CODE_LENGTH}
\* strings that are no pairing code: too short, and a digit off
NonCodes == {<<"1", "4", "7">>, <<"1", "4", "7", "2", "5", "9">>, <<>>}


(***************************************************************************)
(* State.                                                                  *)
(***************************************************************************)
VARIABLES
    auth_manager,        \* AuthManager: code, generated_at, authenticated
    connection_manager,  \* ConnectionManager: active_client_ip, active_client_socket, connected
    now,                 \* the wall clock, time.time()
    phase,               \* HotspotKBMServer: "new", "running", then the steps of stop()
    tcp_running,         \* TCPControlListener._running
    tcp_client_socket,   \* TCPControlListener._client_socket
    tcp_authenticated,   \* TCPControlListener._authenticated
    handler,             \* the peer whose _handle_client thread is running, or NoHost
    tcp_stream,          \* the connection being served, byte by byte: what the peer
                         \* sent and recv has not returned yet, the handler's buffer,
                         \* and the log of what was received, processed and called
    backlog,             \* peers whose connection waits in the listen queue
    udp_running,         \* UDPInputListener._running
    udp_pending,         \* the datagram _listen_loop holds after the authorization check
    discovery_running,   \* DiscoveryService._running
    discovery_datagram,  \* the datagram the discovery socket received last, and
                         \* whether _listen_loop has read it
    input_smoother,      \* InputSmoother: charge, subpixel, velocity, direction,
                         \* speed, last_input_time, is_active
    scroll_smoother,     \* ScrollSmoother: charge_v, charge_h, is_active
    frame,               \* the clock the smoothers read, counted in frame periods
    sink,                \* VirtualMouse: the sums of the dx and dy passed to move()
    charged,             \* the sums of the dx and dy passed to add_movement, and
                         \* the number of calls
    known,               \* per peer with an open connection: the pairing code that
                         \* was valid when it connected
    raced,               \* per peer with an open connection: while it waited in the
                         \* listen queue, the peer being served sent AUTH with its
                         \* known code and received AUTH_OK
    validated_once,      \* validate_code has returned True since the last generate_code
    threads,             \* the threads at the level of their locks and device
                         \* writes: the holder of InputSmoother._lock, where each
                         \* thread stands, the events written to the uinput fds,
                         \* the _running flags of the smoothers, the open sockets
    last                 \* the operation that produced the current state

gate_vars == <<auth_manager, connection_manager, now, validated_once>>
tcp_vars == <<tcp_running, tcp_client_socket, tcp_authenticated, handler, backlog>>
udp_vars == <<udp_running, udp_pending>>
discovery_vars == <<discovery_running, discovery_datagram>>
smoother_vars == <<input_smoother, scroll_smoother, frame, sink, charged>>
client_vars == <<known, raced>>
server_vars ==
    <<phase, tcp_vars, tcp_stream, udp_vars, discovery_vars, smoother_vars, client_vars,
      threads>>
vars == <<gate_vars, server_vars, last>>

(***************************************************************************)
(* auth.py: AuthManager.                                                   *)
(***************************************************************************)
\* str.strip(): the string without its leading and trailing whitespace
RECURSIVE lstrip(_)
lstrip(s) == IF s # <<>> /\ Head(s) \in Whitespace THEN lstrip(Tail(s)) ELSE s

RECURSIVE rstrip(_)
rstrip(s) ==
    IF s # <<>> /\ s[Len(s)] \in Whitespace THEN rstrip(SubSeq(s, 1, Len(s) - 1)) ELSE s

strip(s) == rstrip(lstrip(s))

AuthManager_init ==
    [code |-> NoCode, generated_at |-> NoTime, authenticated |-> FALSE]

\* generate_code that keeps the time of an earlier call
generate_code_keep_time(am, c, t) ==
    [code |-> c,
     generated_at |-> IF am.generated_at = NoTime THEN t ELSE am.generated_at,
     authenticated |-> FALSE]

\* generate_code, c being the string random.choices returned and t time.time()
generate_code(am, c, t) ==
    [code |-> c, generated_at |-> t, authenticated |-> FALSE]

\* validate_code without the timeout check
validate_code_no_expiry(am, input_code, t) ==
    IF am.code = NoCode \/ am.generated_at = NoTime
    THEN [ret |-> FALSE, am |-> am]
    ELSE IF strip(input_code) = am.code
    THEN [ret |-> TRUE, am |-> [am EXCEPT !.authenticated = TRUE]]
    ELSE [ret |-> FALSE, am |-> am]

\* validate_code that refuses an expired code but keeps it stored
validate_code_keeps_expired(am, input_code, t) ==
    IF am.code = NoCode \/ am.generated_at = NoTime
    THEN [ret |-> FALSE, am |-> am]
    ELSE IF t - am.generated_at > AuthTimeout
    THEN [ret |-> FALSE, am |-> am]
    ELSE IF strip(input_code) = am.code
    THEN [ret |-> TRUE, am |-> [am EXCEPT !.authenticated = TRUE]]
    ELSE [ret |-> FALSE, am |-> am]

\* validate_code at time t: the returned value and the manager afterwards
validate_code(am, input_code, t) ==
    IF am.code = NoCode \/ am.generated_at = NoTime
    THEN [ret |-> FALSE, am |-> am]
    ELSE IF t - am.generated_at > AuthTimeout
    THEN [ret |-> FALSE,
          am |-> [am EXCEPT !.code = NoCode, !.generated_at = NoTime]]
    ELSE IF strip(input_code) = am.code
    THEN [ret |-> TRUE, am |-> [am EXCEPT !.authenticated = TRUE]]
    ELSE [ret |-> FALSE, am |-> am]

\* reset that forgets the authenticated flag
reset_keeps_flag(am) ==
    [code |-> NoCode, generated_at |-> NoTime, authenticated |-> am.authenticated]

reset(am) ==
    [code |-> NoCode, generated_at |-> NoTime, authenticated |-> FALSE]

(***************************************************************************)
(* connection.py: ConnectionManager.  Every method runs under self._lock,  *)
(* so each is one atomic step.                                             *)
(***************************************************************************)
ConnectionManager_init ==
    [active_client_ip |-> NoHost, active_client_socket |-> NoSock, connected |-> FALSE]

\* try_connect without the test of self._connected
try_connect_unguarded(cm, client_ip, client_socket) ==
    [ret |-> TRUE,
     cm |-> [active_client_ip |-> client_ip,
             active_client_socket |-> client_socket,
             connected |-> TRUE]]

try_connect(cm, client_ip, client_socket) ==
    IF cm.connected
    THEN [ret |-> FALSE, cm |-> cm]
    ELSE [ret |-> TRUE,
          cm |-> [active_client_ip |-> client_ip,
                  active_client_socket |-> client_socket,
                  connected |-> TRUE]]

\* disconnect that forgets the peer and leaves the flag set
disconnect_keeps_connected(cm) ==
    [active_client_ip |-> NoHost, active_client_socket |-> NoSock,
     connected |-> cm.connected]

\* disconnect closes the stored socket (best effort) and forgets the peer
disconnect(cm) ==
    [active_client_ip |-> NoHost, active_client_socket |-> NoSock, connected |-> FALSE]

is_connected(cm) == cm.connected

\* is_authorized_client without the comparison of the address
is_authorized_client_any(cm, client_ip) == cm.connected

is_authorized_client(cm, client_ip) ==
    cm.connected /\ cm.active_client_ip = client_ip

(***************************************************************************)
(* smoother.py: InputSmoother.  Its floats are fixed-point numbers here:   *)
(* Unit stands for 1.0, products and quotients are truncated toward zero   *)
(* to a whole number of units.  Time is counted in frame periods           *)
(* (1 / target_fps), so the interval is 1 and the continuation timeout of  *)
(* 100 ms at 60 frames per second is 6.                                    *)
(***************************************************************************)
\* 1.0
Unit == 1000
\* main.py: discharge_rate=0.16, in thousandths
DISCHARGE_RATE == 160
\* main.py: continuation_timeout_ms=100 at target_fps=60, in frame periods
CONTINUATION_FRAMES == 6
\* InputSmoother.__init__: the default discharge_rate 0.22, in thousandths
DEFAULT_DISCHARGE_RATE == 220
\* InputSmoother.__init__: the default continuation_timeout_ms=80 at
\* target_fps=60, in tenths of a frame period
DEFAULT_CONTINUATION == 48

Abs(n) == IF n < 0 THEN -n ELSE n
\* Python's int() and float division on these numbers: toward zero
TDiv(a, b) == IF a >= 0 THEN a \div b ELSE -((-a) \div b)
Min(a, b) == IF a <= b THEN a ELSE b
Max(a, b) == IF a >= b THEN a ELSE b

\* math.sqrt on whole units: the largest r in lo..hi with r * r <= n
RECURSIVE SqrtBetween(_, _, _)
SqrtBetween(n, lo, hi) ==
    IF lo >= hi THEN lo
    ELSE LET mid == (lo + hi + 1) \div 2
         IN  IF mid * mid <= n THEN SqrtBetween(n, mid, hi)
             ELSE SqrtBetween(n, lo, mid - 1)
sqrt(n) == SqrtBetween(n, 0, 46340)
\* math.sqrt(a**2 + b**2), the squares kept within 32 bits
hypot(a, b) ==
    IF b = 0 THEN Abs(a) ELSE IF a = 0 THEN Abs(b) ELSE sqrt(a * a + b * b)
\* whether math.sqrt(a**2 + b**2) exceeds r, resp. stays below r
longer(a, b, r) == Abs(a) > r \/ Abs(b) > r \/ a * a + b * b > r * r
shorter(a, b, r) == Abs(a) < r /\ Abs(b) < r /\ a * a + b * b < r * r

\* InputSmoother.__init__: discharge_rate in thousandths, continuation_timeout
\* in tenths of a frame period
InputSmoother(discharge_rate, continuation_timeout) ==
    [discharge_rate |-> discharge_rate, continuation_timeout |-> continuation_timeout,
     charge_x |-> 0, charge_y |-> 0, subpixel_x |-> 0, subpixel_y |-> 0,
     velocity_x |-> 0, velocity_y |-> 0, direction_x |-> 0, direction_y |-> 0,
     speed |-> 0, last_input_time |-> 0, is_active |-> FALSE]

\* the smoother HotspotKBMServer.start builds
InputSmoother_init == InputSmoother(DISCHARGE_RATE, 10 * CONTINUATION_FRAMES)

\* add_movement(dx, dy) at time t
add_movement(sm, dx, dy, t) ==
    LET dt0 == IF sm.last_input_time > 0 THEN t - sm.last_input_time ELSE 1
        dt == IF dt0 < 1 THEN 1 ELSE dt0
        frames == Max(dt, 1)
        new_vx == TDiv(dx * Unit, frames)
        new_vy == TDiv(dy * Unit, frames)
        opposed == dx * sm.velocity_x + dy * sm.velocity_y < 0
        vx == TDiv((IF opposed THEN 0 ELSE sm.velocity_x) * 4 + new_vx * 6, 10)
        vy == TDiv((IF opposed THEN 0 ELSE sm.velocity_y) * 4 + new_vy * 6, 10)
        speed == hypot(vx, vy)
        turn == speed > (5 * Unit) \div 100
    IN  [sm EXCEPT !.charge_x = @ + dx * Unit,
                   !.charge_y = @ + dy * Unit,
                   !.velocity_x = vx,
                   !.velocity_y = vy,
                   !.direction_x = IF turn THEN TDiv(vx * Unit, speed) ELSE @,
                   !.direction_y = IF turn THEN TDiv(vy * Unit, speed) ELSE @,
                   !.speed = IF turn THEN speed ELSE @,
                   !.is_active = TRUE,
                   !.last_input_time = t]

\* the adaptive rate without its upper and lower limits
adaptive_rate_unclamped(sm) ==
    IF longer(sm.charge_x, sm.charge_y, 10 * Unit)
    THEN (sm.discharge_rate * 15) \div 10
    ELSE IF shorter(sm.charge_x, sm.charge_y, 2 * Unit)
    THEN (sm.discharge_rate * 7) \div 10
    ELSE sm.discharge_rate

\* the adaptive discharge rate, in thousandths
adaptive_rate(sm) ==
    IF longer(sm.charge_x, sm.charge_y, 10 * Unit)
    THEN Min((sm.discharge_rate * 15) \div 10, 270)
    ELSE IF shorter(sm.charge_x, sm.charge_y, 2 * Unit)
    THEN Max((sm.discharge_rate * 7) \div 10, 120)
    ELSE sm.discharge_rate

\* state 1 that never releases the residual
release_no_flush(charge, rate) == TDiv(charge * rate, 1000)

\* state 1, one axis: the part of the charge released in this frame, all of
\* it once less than 0.02 would remain
release(charge, rate) ==
    LET part == TDiv(charge * rate, 1000) IN
    IF Abs(charge - part) < (2 * Unit) \div 100 THEN charge ELSE part

\* state 2: the continuation speed, since being the time since the last
\* input in tenths of a frame period; 0 below the threshold of 0.03
continuation(sm, since) ==
    LET left == sm.continuation_timeout - since
        continue_speed ==
            TDiv(sm.speed * left * left,
                 2 * sm.continuation_timeout * sm.continuation_timeout)
    IN  IF continue_speed > (3 * Unit) \div 100 THEN continue_speed ELSE 0

\* state 3 that only drops the flag
idle_reset_flag_only(sm) == [sm EXCEPT !.is_active = FALSE]

\* state 3 that leaves the flag up
idle_reset_keeps_active(sm) ==
    [sm EXCEPT !.speed = 0, !.velocity_x = 0, !.velocity_y = 0]

\* state 3: the reset when the timeout is reached
idle_reset(sm) ==
    [sm EXCEPT !.is_active = FALSE, !.speed = 0, !.velocity_x = 0, !.velocity_y = 0]

\* the sub-pixel accumulator that forgets the fraction
carry_drops_fraction(subpixel, out) ==
    [pixels |-> TDiv(subpixel + out, Unit), subpixel |-> 0]

\* the sub-pixel accumulator that keeps what it hands out
carry_keeps_pixels(subpixel, out) ==
    [pixels |-> TDiv(subpixel + out, Unit), subpixel |-> subpixel + out]

\* the sub-pixel accumulator that starts from zero after each pixel it hands out
carry_clears_on_output(subpixel, out) ==
    LET pixels == TDiv(subpixel + out, Unit) IN
    [pixels |-> pixels, subpixel |-> IF pixels # 0 THEN 0 ELSE subpixel + out]

\* the sub-pixel accumulator, one axis: int() takes the whole pixels, the
\* fraction stays
carry(subpixel, out) ==
    LET pixels == TDiv(subpixel + out, Unit) IN
    [pixels |-> pixels, subpixel |-> subpixel + out - pixels * Unit]

\* the if / elif chain that asks for the timeout before it asks for charge
branch_timeout_first(sm, since) ==
    IF sm.is_active /\ since >= sm.continuation_timeout THEN "idle"
    ELSE IF sm.charge_x # 0 \/ sm.charge_y # 0 THEN "discharge"
    ELSE IF sm.is_active THEN "continuation"
    ELSE "none"

\* the if / elif chain of _discharge_loop: the state the frame is in, since
\* being the time since the last input in tenths of a frame period
branch(sm, since) ==
    IF sm.charge_x # 0 \/ sm.charge_y # 0 THEN "discharge"
    ELSE IF sm.is_active /\ since < sm.continuation_timeout THEN "continuation"
    ELSE IF sm.is_active /\ since >= sm.continuation_timeout THEN "idle"
    ELSE "none"

\* one pass of _discharge_loop at time t: the smoother afterwards and the
\* integers handed to inject_move (<<0, 0>>: no call)
discharge(sm, t) ==
    LET since == 10 * (t - sm.last_input_time)
        charging == branch(sm, since) = "discharge"
        continuing == branch(sm, since) = "continuation"
        idle == branch(sm, since) = "idle"
        rate == adaptive_rate(sm)
        push == IF continuing THEN continuation(sm, since) ELSE 0
        out_dx == IF charging THEN release(sm.charge_x, rate)
                  ELSE TDiv(sm.direction_x * push, Unit)
        out_dy == IF charging THEN release(sm.charge_y, rate)
                  ELSE TDiv(sm.direction_y * push, Unit)
        cx == carry(sm.subpixel_x, out_dx)
        cy == carry(sm.subpixel_y, out_dy)
        after == IF idle THEN idle_reset(sm) ELSE sm
    IN  [sm |-> [after EXCEPT !.charge_x = @ - out_dx * (IF charging THEN 1 ELSE 0),
                              !.charge_y = @ - out_dy * (IF charging THEN 1 ELSE 0),
                              !.subpixel_x = cx.subpixel,
                              !.subpixel_y = cy.subpixel],
         move |-> <<cx.pixels, cy.pixels>>]

(***************************************************************************)
(* smoother.py: ScrollSmoother.add_scroll, as far as the session claims    *)
(* observe it: the charge accumulated and the active flag.                 *)
(***************************************************************************)
add_scroll(sm, vertical, horizontal) ==
    [sm EXCEPT !.charge_v = @ + vertical, !.charge_h = @ + horizontal, !.is_active = TRUE]

(***************************************************************************)
(* smoother.py: ScrollSmoother in full, in the fixed-point numbers of the   *)
(* pointer smoother: charge and velocity in thousandths of a scroll unit,   *)
(* time in frame periods.  add_scroll_at is add_scroll with its clock       *)
(* reading and its velocity blend.                                          *)
(***************************************************************************)
\* main.py: discharge_rate=0.12, in thousandths
SCROLL_DISCHARGE_RATE == 120
\* ScrollSmoother.__init__: discharge_rate=0.25, momentum_decay=0.90
DEFAULT_SCROLL_RATE == 250
MOMENTUM_DECAY == 900
\* _discharge_loop: time_since_input < 0.8 at 60 frames per second
MOMENTUM_FRAMES == 48

ScrollSmoother(discharge_rate, momentum_decay) ==
    [discharge_rate |-> discharge_rate, momentum_decay |-> momentum_decay,
     charge_v |-> 0, charge_h |-> 0, subpixel_v |-> 0, subpixel_h |-> 0,
     velocity_v |-> 0, velocity_h |-> 0, last_input_time |-> 0, is_active |-> FALSE]

\* the smoother HotspotKBMServer.start builds
ScrollSmoother_init == ScrollSmoother(SCROLL_DISCHARGE_RATE, MOMENTUM_DECAY)

\* add_scroll(vertical, horizontal) at time t
add_scroll_at(sm, vertical, horizontal, t) ==
    LET dt0 == IF sm.last_input_time > 0 THEN t - sm.last_input_time ELSE 1
        dt == IF dt0 < 1 THEN 1 ELSE dt0
        frames == Max(dt, 1)
        new_vv == TDiv(vertical * Unit, frames)
        new_vh == TDiv(horizontal * Unit, frames)
    IN  [sm EXCEPT !.charge_v = @ + vertical * Unit,
                   !.charge_h = @ + horizontal * Unit,
                   !.velocity_v = TDiv(@ * 5 + new_vv * 5, 10),
                   !.velocity_h = TDiv(@ * 5 + new_vh * 5, 10),
                   !.is_active = TRUE,
                   !.last_input_time = t]

\* the adaptive discharge rate of the scroll smoother, in thousandths
scroll_rate(sm) ==
    IF longer(sm.charge_v, sm.charge_h, 8 * Unit)
    THEN Min((sm.discharge_rate * 18) \div 10, 450)
    ELSE IF shorter(sm.charge_v, sm.charge_h, 2 * Unit)
    THEN sm.discharge_rate
    ELSE (sm.discharge_rate * 12) \div 10

\* state 1, one axis: the part of the charge released in this frame, all of
\* it once less than 0.1 would remain
scroll_release(charge, rate) ==
    LET part == TDiv(charge * rate, 1000) IN
    IF Abs(charge - part) < Unit \div 10 THEN charge ELSE part

\* state 2 that puts the velocity out before it decays
momentum_decays_after(sm) ==
    [out_v |-> sm.velocity_v, out_h |-> sm.velocity_h,
     sm |-> [sm EXCEPT !.velocity_v = TDiv(@ * sm.momentum_decay, 1000),
                       !.velocity_h = TDiv(@ * sm.momentum_decay, 1000),
                       !.is_active = ~(Abs(sm.velocity_v) < (2 * Unit) \div 10
                                       /\ Abs(sm.velocity_h) < (2 * Unit) \div 10)]]

\* state 2: the velocity decays, the decayed velocity is the output, and the
\* flag falls once both components are below 0.2
momentum(sm) ==
    LET vv == TDiv(sm.velocity_v * sm.momentum_decay, 1000)
        vh == TDiv(sm.velocity_h * sm.momentum_decay, 1000)
    IN  [out_v |-> vv, out_h |-> vh,
         sm |-> [sm EXCEPT !.velocity_v = vv,
                           !.velocity_h = vh,
                           !.is_active = ~(Abs(vv) < (2 * Unit) \div 10
                                           /\ Abs(vh) < (2 * Unit) \div 10)]]

\* the if / elif chain of ScrollSmoother._discharge_loop, since being the
\* time since the last input in frame periods
scroll_branch(sm, since) ==
    IF sm.charge_v # 0 \/ sm.charge_h # 0 THEN "discharge"
    ELSE IF sm.is_active /\ since < MOMENTUM_FRAMES THEN "momentum"
    ELSE "none"

\* one pass of ScrollSmoother._discharge_loop at time t: the smoother
\* afterwards and the integers handed to inject_scroll (<<0, 0>>: no call)
scroll_discharge(sm, t) ==
    LET state == scroll_branch(sm, t - sm.last_input_time)
        rate == scroll_rate(sm)
        flick == momentum(sm)
        out_v == IF state = "discharge" THEN scroll_release(sm.charge_v, rate)
                 ELSE IF state = "momentum" THEN flick.out_v ELSE 0
        out_h == IF state = "discharge" THEN scroll_release(sm.charge_h, rate)
                 ELSE IF state = "momentum" THEN flick.out_h ELSE 0
        cv == carry(sm.subpixel_v, out_v)
        ch == carry(sm.subpixel_h, out_h)
        after == IF state = "momentum" THEN flick.sm ELSE sm
    IN  [sm |-> [after EXCEPT
                    !.charge_v = IF state = "discharge" THEN @ - out_v ELSE @,
                    !.charge_h = IF state = "discharge" THEN @ - out_h ELSE @,
                    !.subpixel_v = cv.subpixel,
                    !.subpixel_h = ch.subpixel],
         scroll |-> <<cv.pixels, ch.pixels>>]

(***************************************************************************)
(* The record of the operation that produced the current state.            *)
(***************************************************************************)
\*   op     the operation
\*   ret    what the gate method it called returned: validate_code, try_connect,
\*          is_authorized_client; for a dropped or forwarded line and for a
\*          discovery datagram, whether the callback or the reply followed
\*   reply  the message handed to send_to_client or sendto, "" when none
\*   mark   a note on the case:
\*            auth           the line carried the code the peer learned at connect
\*            udp_recv       a smoother call follows
\*            generate_code  another code was stored before
\*            reset          the manager was not in its initial state before
\*            try_connect    a session of another peer was active
\*            handler_exit   a session was active
\*            discovery      the trimmed payload is the magic string
\*   sent   what the operation wrote to the client's socket, "" when nothing
\*   call   the call the operation made on the Sink or on a smoother, <<>>
\*          when none
Op(op, ret, reply, mark) ==
    [op |-> op, ret |-> ret, reply |-> reply, mark |-> mark, sent |-> "",
     call |-> <<>>]

NoOp == Op("init", FALSE, "", FALSE)

(***************************************************************************)
(* The state after construction: HotspotKBMServer.__init__ builds the      *)
(* AuthManager and the ConnectionManager; nothing is started yet.          *)
(***************************************************************************)
InitButSmoothers ==
    /\ auth_manager = AuthManager_init
    /\ connection_manager = ConnectionManager_init
    /\ now = 0
    /\ phase = "new"
    /\ tcp_running = FALSE
    /\ tcp_client_socket = NoSock
    /\ tcp_authenticated = FALSE
    /\ handler = NoHost
    /\ tcp_stream = NoStream
    /\ backlog = <<>>
    /\ udp_running = FALSE
    /\ udp_pending = <<>>
    /\ discovery_running = FALSE
    /\ discovery_datagram = NoDatagram
    /\ frame = 1
    /\ sink = [x |-> 0, y |-> 0]
    /\ charged = [x |-> 0, y |-> 0, calls |-> 0]
    /\ known = [h \in Hosts |-> NoCode]
    /\ raced = [h \in Hosts |-> FALSE]
    /\ validated_once = FALSE
    /\ threads = NoThreads
    /\ last = NoOp

InitButPointer ==
    /\ InitButSmoothers
    /\ scroll_smoother = [charge_v |-> 0, charge_h |-> 0, is_active |-> FALSE]

Init ==
    /\ InitButPointer
    /\ input_smoother = InputSmoother_init

\* time passes
Tick ==
    /\ now < MaxTime
    /\ now' = now + 1
    /\ last' = Op("tick", FALSE, "", FALSE)
    /\ UNCHANGED <<auth_manager, connection_manager, validated_once, server_vars>>

(***************************************************************************)
(* GateSpec: the two gates called directly.                                *)
(***************************************************************************)
\* what validate_code is called with: a code or another string, with
\* whitespace around it
GateInputs ==
    {l \o c \o r : c \in Codes \cup NonCodes,
                   l \in SeqsUpTo(Whitespace, MaxPad), r \in SeqsUpTo(Whitespace, MaxPad)}

GGenerate(c) ==
    /\ auth_manager' = generate_code(auth_manager, c, now)
    /\ validated_once' = FALSE
    /\ last' = Op("generate_code", FALSE, "",
                  auth_manager.code # NoCode /\ auth_manager.code # c)
    /\ UNCHANGED <<connection_manager, now, server_vars>>

GValidate(input) ==
    LET r == validate_code(auth_manager, input, now) IN
    /\ auth_manager' = r.am
    /\ validated_once' = (validated_once \/ r.ret)
    /\ last' = Op("validate_code", r.ret, "", FALSE)
    /\ UNCHANGED <<connection_manager, now, server_vars>>

GReset ==
    /\ auth_manager' = reset(auth_manager)
    /\ last' = Op("reset", FALSE, "", auth_manager # AuthManager_init)
    /\ UNCHANGED <<connection_manager, now, validated_once, server_vars>>

GTryConnect(ip, sock) ==
    LET r == try_connect(connection_manager, ip, sock) IN
    /\ connection_manager' = r.cm
    /\ last' = Op("try_connect", r.ret, "",
                  connection_manager.connected
                  /\ connection_manager.active_client_ip # ip)
    /\ UNCHANGED <<auth_manager, now, validated_once, server_vars>>

GDisconnect ==
    /\ connection_manager' = disconnect(connection_manager)
    /\ last' = Op("disconnect", FALSE, "", FALSE)
    /\ UNCHANGED <<auth_manager, now, validated_once, server_vars>>

GateNext ==
    \/ \E c \in Codes : GGenerate(c)
    \/ \E input \in GateInputs : GValidate(input)
    \/ GReset
    \/ \E ip \in Hosts, sock \in Socks : GTryConnect(ip, sock)
    \/ GDisconnect
    \/ Tick

GateSpec == Init /\ [][GateNext]_vars

(***************************************************************************)
(* network.py: text handling.  A datagram or a line is the sequence of its *)
(* whitespace-separated tokens (what str.split() returns).                 *)
(***************************************************************************)
\* str.upper() on the words the model sends
upper(w) ==
    CASE w = "move" -> "MOVE"
      [] w = "scroll" -> "SCROLL"
      [] w = "auth" -> "AUTH"
      [] w = "click" -> "CLICK"
      [] w = "key" -> "KEY"
      [] w = "left" -> "LEFT"
      [] w = "down" -> "DOWN"
      [] OTHER -> w

\* int(): defined on the decimal literals, raises ValueError on anything else
IntLiterals == {"-1", "0", "1"}
int(w) == CASE w = "-1" -> -1 [] w = "0" -> 0 [] w = "1" -> 1

\* _parse_packet that takes the first three of three or more tokens
parse_packet_lenient(parts) ==
    IF Len(parts) >= 3 /\ parts[2] \in IntLiterals /\ parts[3] \in IntLiterals
    THEN <<upper(parts[1]), int(parts[2]), int(parts[3])>>
    ELSE <<>>

\* UDPInputListener._parse_packet: <<cmd, val1, val2>>, or <<>> for None
parse_packet(parts) ==
    IF Len(parts) = 3 /\ parts[2] \in IntLiterals /\ parts[3] \in IntLiterals
    THEN <<upper(parts[1]), int(parts[2]), int(parts[3])>>
    ELSE <<>>

\* config.BUTTON_MAP and config.KEY_MAP: the names they hold
BUTTON_MAP == {"LEFT", "RIGHT", "MIDDLE"}
KEY_MAP == {"KEY_A", "KEY_ENTER", "KEY_LEFTSHIFT"}

(***************************************************************************)
(* main.py: the callbacks of HotspotKBMServer.                             *)
(***************************************************************************)
\* _on_auth that drops the listener's flag when the code is refused
on_auth_clears_flag(am, cm, authenticated, client_socket, client_ip, code, t) ==
    LET v == validate_code(am, code, t)
        c == try_connect(cm, client_ip, client_socket)
    IN  IF v.ret
        THEN IF c.ret
             THEN [am |-> v.am, cm |-> c.cm, authenticated |-> TRUE,
                   valid |-> TRUE, accepted |-> TRUE, reply |-> "AUTH_OK"]
             ELSE [am |-> v.am, cm |-> cm, authenticated |-> authenticated,
                   valid |-> TRUE, accepted |-> FALSE,
                   reply |-> "AUTH_FAIL:ALREADY_CONNECTED"]
        ELSE [am |-> v.am, cm |-> cm, authenticated |-> FALSE,
              valid |-> FALSE, accepted |-> FALSE,
              reply |-> "AUTH_FAIL:INVALID_CODE"]

\* _on_auth that registers the peer whatever validate_code returned
on_auth_connects_anyway(am, cm, authenticated, client_socket, client_ip, code, t) ==
    LET v == validate_code(am, code, t)
        c == try_connect(cm, client_ip, client_socket)
    IN  IF v.ret
        THEN IF c.ret
             THEN [am |-> v.am, cm |-> c.cm, authenticated |-> TRUE,
                   valid |-> TRUE, accepted |-> TRUE, reply |-> "AUTH_OK"]
             ELSE [am |-> v.am, cm |-> cm, authenticated |-> authenticated,
                   valid |-> TRUE, accepted |-> FALSE,
                   reply |-> "AUTH_FAIL:ALREADY_CONNECTED"]
        ELSE [am |-> v.am, cm |-> c.cm, authenticated |-> authenticated,
              valid |-> FALSE, accepted |-> FALSE,
              reply |-> "AUTH_FAIL:INVALID_CODE"]

\* _on_auth that asks the Session Gate before it looks at the code
on_auth_session_first(am, cm, authenticated, client_socket, client_ip, code, t) ==
    LET v == validate_code(am, code, t)
        c == try_connect(cm, client_ip, client_socket)
    IN  IF ~c.ret
        THEN [am |-> v.am, cm |-> cm, authenticated |-> authenticated,
              valid |-> v.ret, accepted |-> FALSE,
              reply |-> "AUTH_FAIL:ALREADY_CONNECTED"]
        ELSE IF v.ret
        THEN [am |-> v.am, cm |-> c.cm, authenticated |-> TRUE,
              valid |-> TRUE, accepted |-> TRUE, reply |-> "AUTH_OK"]
        ELSE [am |-> v.am, cm |-> cm, authenticated |-> authenticated,
              valid |-> FALSE, accepted |-> FALSE,
              reply |-> "AUTH_FAIL:INVALID_CODE"]

\* _on_auth that ends the session it finds when the code is valid again
on_auth_ends_session(am, cm, authenticated, client_socket, client_ip, code, t) ==
    LET v == validate_code(am, code, t)
        c == try_connect(cm, client_ip, client_socket)
    IN  IF v.ret
        THEN IF c.ret
             THEN [am |-> v.am, cm |-> c.cm, authenticated |-> TRUE,
                   valid |-> TRUE, accepted |-> TRUE, reply |-> "AUTH_OK"]
             ELSE [am |-> v.am, cm |-> disconnect(cm), authenticated |-> FALSE,
                   valid |-> TRUE, accepted |-> FALSE,
                   reply |-> "AUTH_FAIL:ALREADY_CONNECTED"]
        ELSE [am |-> v.am, cm |-> cm, authenticated |-> authenticated,
              valid |-> FALSE, accepted |-> FALSE,
              reply |-> "AUTH_FAIL:INVALID_CODE"]

\* _on_auth that ends the session when validate_code finds the code expired
on_auth_expiry_ends_session(am, cm, authenticated, client_socket, client_ip, code, t) ==
    LET v == validate_code(am, code, t)
        c == try_connect(cm, client_ip, client_socket)
        expired == am.code # NoCode /\ v.am.code = NoCode
    IN  IF v.ret
        THEN IF c.ret
             THEN [am |-> v.am, cm |-> c.cm, authenticated |-> TRUE,
                   valid |-> TRUE, accepted |-> TRUE, reply |-> "AUTH_OK"]
             ELSE [am |-> v.am, cm |-> cm, authenticated |-> authenticated,
                   valid |-> TRUE, accepted |-> FALSE,
                   reply |-> "AUTH_FAIL:ALREADY_CONNECTED"]
        ELSE [am |-> v.am,
              cm |-> IF expired THEN disconnect(cm) ELSE cm,
              authenticated |-> authenticated /\ ~expired,
              valid |-> FALSE, accepted |-> FALSE,
              reply |-> "AUTH_FAIL:INVALID_CODE"]

\* _on_auth: the managers, the listener's flag and the message handed to
\* send_to_client afterwards
on_auth(am, cm, authenticated, client_socket, client_ip, code, t) ==
    LET v == validate_code(am, code, t)
        c == try_connect(cm, client_ip, client_socket)
    IN  IF v.ret
        THEN IF c.ret
             THEN [am |-> v.am, cm |-> c.cm, authenticated |-> TRUE,
                   valid |-> TRUE, accepted |-> TRUE, reply |-> "AUTH_OK"]
             ELSE [am |-> v.am, cm |-> cm, authenticated |-> authenticated,
                   valid |-> TRUE, accepted |-> FALSE,
                   reply |-> "AUTH_FAIL:ALREADY_CONNECTED"]
        ELSE [am |-> v.am, cm |-> cm, authenticated |-> authenticated,
              valid |-> FALSE, accepted |-> FALSE,
              reply |-> "AUTH_FAIL:INVALID_CODE"]

\* TCPControlListener.send_to_client: what is written to the socket the
\* listener holds; nothing when stop() or the handler's exit has cleared it
\* (an exception of send() is swallowed: the peer is gone then)
send_to_client(client_socket, message) ==
    IF client_socket # NoSock THEN message ELSE ""

\* _on_disconnect that draws the new code before it resets the Auth Gate
on_disconnect_generate_first(am, cm, c, t) ==
    [cm |-> disconnect(cm), am |-> reset(generate_code(am, c, t))]

\* _on_disconnect that leaves the Auth Gate alone
on_disconnect_keeps_code(am, cm, c, t) ==
    [cm |-> disconnect(cm), am |-> am]

\* _on_disconnect, c being the code generate_code draws
on_disconnect(am, cm, c, t) ==
    [cm |-> disconnect(cm), am |-> generate_code(reset(am), c, t)]

\* _can_respond_to_discovery that does not ask the Session Gate
can_respond_always(cm) == TRUE

can_respond_to_discovery(cm) == ~is_connected(cm)

(***************************************************************************)
(* network.py: TCPControlListener._process_command on one stripped line.   *)
(* The result says which callback the line reaches: "auth", "click",       *)
(* "key", or "" when the line is dropped.                                  *)
(***************************************************************************)
\* _process_command that forwards CLICK and KEY whatever the flag says
process_command_any(authenticated, parts) ==
    IF parts = <<>> THEN ""
    ELSE IF upper(parts[1]) = "AUTH" /\ Len(parts) >= 2 THEN "auth"
    ELSE IF upper(parts[1]) = "CLICK" /\ Len(parts) >= 3
         THEN IF upper(parts[2]) \in BUTTON_MAP /\ upper(parts[3]) \in {"DOWN", "UP"}
              THEN "click" ELSE ""
         ELSE IF upper(parts[1]) = "KEY" /\ Len(parts) >= 3
         THEN IF upper(parts[3]) \in KEY_MAP /\ upper(parts[2]) \in {"DOWN", "UP"}
              THEN "key" ELSE ""
         ELSE ""

process_command(authenticated, parts) ==
    IF parts = <<>> THEN ""
    ELSE IF upper(parts[1]) = "AUTH" /\ Len(parts) >= 2 THEN "auth"
    ELSE IF authenticated
    THEN IF upper(parts[1]) = "CLICK" /\ Len(parts) >= 3
         THEN IF upper(parts[2]) \in BUTTON_MAP /\ upper(parts[3]) \in {"DOWN", "UP"}
              THEN "click" ELSE ""
         ELSE IF upper(parts[1]) = "KEY" /\ Len(parts) >= 3
         THEN IF upper(parts[3]) \in KEY_MAP /\ upper(parts[2]) \in {"DOWN", "UP"}
              THEN "key" ELSE ""
         ELSE ""
    ELSE ""

\* _on_click and _on_key: the call on the Sink for a forwarded line, in the
\* argument order of VirtualMouse.click and VirtualKeyboard.key_event
sink_call(to, parts) ==
    IF to = "click" THEN <<"click", upper(parts[2]), upper(parts[3])>>
    ELSE IF to = "key" THEN <<"key_event", upper(parts[3]), upper(parts[2])>>
    ELSE <<>>

(***************************************************************************)
(* What the peers send.                                                    *)
(***************************************************************************)
Lines ==
    {<<"AUTH", c>> : c \in Codes}
    \cup {<<"auth", <<"1", "4", "7">>>>}
    \cup {<<"AUTH">>, <<"CLICK", "left", "DOWN">>, <<"KEY", "DOWN", "KEY_A">>,
          <<"CLICK", "LEFT", "TWICE">>, <<"CLICK", "SIDE", "DOWN">>,
          <<"CLICK", "LEFT">>, <<"KEY", "KEY_A", "DOWN">>, <<"TAP", "LEFT", "DOWN">>}

Datagrams ==
    {<<"move", "1", "0">>, <<"SCROLL", "0", "1">>,
     <<"JUMP", "1", "0">>, <<"MOVE", "x", "0">>, <<"MOVE", "1">>,
     <<"MOVE", "1", "0", "0">>, <<"scroll", "-1", "y">>, <<>>}

DISCOVERY_MAGIC == <<"HOTSPOT_KBM_DISCOVERY">>
DiscoveryMessages ==
    {DISCOVERY_MAGIC, <<" ">> \o DISCOVERY_MAGIC, DISCOVERY_MAGIC \o <<" ">>,
     DISCOVERY_MAGIC \o <<"X">>, <<"HELLO">>, <<>>}
\* DiscoveryService._build_response: the five lines, joined by newlines
build_response ==
    "HOTSPOT_KBM_SERVER\nSERVER_NAME\nserver_ip\nCONTROL_PORT\nAUTH_REQUIRED=true"

(***************************************************************************)
(* SmootherSpec: the pointer smoother called directly, its discharge loop  *)
(* running.                                                                *)
(***************************************************************************)
\* what add_movement is called with
Moves == {<<4, 0>>, <<-4, 0>>, <<0, 1>>, <<3, 4>>}

\* a caller charges the smoother between two frames
SAddMovement(dx, dy) ==
    /\ charged.calls < MaxMoves
    /\ frame <= LastInputFrame
    /\ input_smoother' = add_movement(input_smoother, dx, dy, frame)
    /\ charged' = [x |-> charged.x + dx, y |-> charged.y + dy,
                    calls |-> charged.calls + 1]
    /\ last' = Op("add_movement", FALSE, "", FALSE)
    /\ UNCHANGED <<threads, gate_vars, phase, tcp_vars, udp_vars, discovery_vars,
                   scroll_smoother, frame, sink, tcp_stream, client_vars>>

\* InputSmoother._discharge_loop: one frame, then the sleep to the next one
Discharge ==
    /\ frame < MaxFrame
    /\ LET d == discharge(input_smoother, frame) IN
        /\ input_smoother' = d.sm
        /\ sink' = [x |-> sink.x + d.move[1], y |-> sink.y + d.move[2]]
        /\ last' = [Op("frame", d.move # <<0, 0>>, "", FALSE) EXCEPT
                        !.call = IF d.move # <<0, 0>>
                                 THEN <<"move", d.move[1], d.move[2]>> ELSE <<>>]
    /\ frame' = frame + 1
    /\ UNCHANGED <<threads, gate_vars, phase, tcp_vars, udp_vars, discovery_vars,
                   scroll_smoother, charged, tcp_stream, client_vars>>

SmootherNext ==
    \/ \E m \in Moves : SAddMovement(m[1], m[2])
    \/ Discharge

SmootherSpec == Init /\ [][SmootherNext]_vars

(***************************************************************************)
(* PointerSpec: the pointer smoother called directly, built with the       *)
(* parameters of main.py or with the defaults of the class, the second     *)
(* call arriving up to LastTurnFrame.                                      *)
(***************************************************************************)
PointerInit ==
    /\ InitButPointer
    /\ input_smoother \in
            {InputSmoother_init,
             InputSmoother(DEFAULT_DISCHARGE_RATE, DEFAULT_CONTINUATION)}

PointerMoves == {<<9, 0>>, <<-1, 0>>, <<3, 4>>, <<0, -2>>}

PAddMovement(dx, dy) ==
    /\ charged.calls < MaxMoves
    /\ frame <= (IF charged.calls = 0 THEN LastInputFrame ELSE LastTurnFrame)
    /\ input_smoother' = add_movement(input_smoother, dx, dy, frame)
    /\ charged' = [x |-> charged.x + dx, y |-> charged.y + dy,
                    calls |-> charged.calls + 1]
    /\ last' = [Op("add_movement", FALSE, "", FALSE) EXCEPT
                    !.call = <<"add_movement", dx, dy>>]
    /\ UNCHANGED <<threads, gate_vars, phase, tcp_vars, udp_vars, discovery_vars,
                   scroll_smoother, frame, sink, tcp_stream, client_vars>>

PointerNext ==
    \/ \E m \in PointerMoves : PAddMovement(m[1], m[2])
    \/ Discharge

PointerSpec == PointerInit /\ [][PointerNext]_vars

(***************************************************************************)
(* ScenarioSpec: the two pointer scenarios of the spec's examples, played  *)
(* on either smoother: one MOVE 100 0, and MOVE 50 0 followed two frame    *)
(* periods later by MOVE -50 0.                                            *)
(***************************************************************************)
\* the first datagram of a scenario
ScenarioMove(dx) ==
    /\ charged.calls = 0
    /\ frame <= LastInputFrame
    /\ input_smoother' = add_movement(input_smoother, dx, 0, frame)
    /\ charged' = [x |-> dx, y |-> 0, calls |-> 1]
    /\ last' = [Op("add_movement", FALSE, "", FALSE) EXCEPT
                    !.call = <<"add_movement", dx, 0>>]
    /\ UNCHANGED <<threads, gate_vars, phase, tcp_vars, udp_vars, discovery_vars,
                   scroll_smoother, frame, sink, tcp_stream, client_vars>>

\* the reversal, two frame periods after MOVE 50 0
ScenarioTurn ==
    /\ charged = [x |-> 50, y |-> 0, calls |-> 1]
    /\ frame = input_smoother.last_input_time + 2
    /\ input_smoother' = add_movement(input_smoother, -50, 0, frame)
    /\ charged' = [x |-> 0, y |-> 0, calls |-> 2]
    /\ last' = [Op("add_movement", FALSE, "", FALSE) EXCEPT
                    !.call = <<"add_movement", -50, 0>>]
    /\ UNCHANGED <<threads, gate_vars, phase, tcp_vars, udp_vars, discovery_vars,
                   scroll_smoother, frame, sink, tcp_stream, client_vars>>

ScenarioNext ==
    \/ \E dx \in {100, 50} : ScenarioMove(dx)
    \/ ScenarioTurn
    \/ Discharge

ScenarioSpec == PointerInit /\ [][ScenarioNext]_vars

(***************************************************************************)
(* uinput_device.py: the events VirtualMouse and VirtualKeyboard write for *)
(* one call, each a separate os.write on the device's fd: <<fd, code,      *)
(* value>>.                                                                *)
(***************************************************************************)
\* _sync
sync(fd) == <<<<fd, "SYN_REPORT", 0>>>>

\* VirtualMouse.move
move(dx, dy) ==
    (IF dx # 0 THEN <<<<"mouse", "REL_X", dx>>>> ELSE <<>>) \o
    (IF dy # 0 THEN <<<<"mouse", "REL_Y", dy>>>> ELSE <<>>) \o
    (IF dx # 0 \/ dy # 0 THEN sync("mouse") ELSE <<>>)

\* VirtualMouse.scroll
scroll(vertical, horizontal) ==
    (IF vertical # 0 THEN <<<<"mouse", "REL_WHEEL", vertical>>>> ELSE <<>>) \o
    (IF horizontal # 0 THEN <<<<"mouse", "REL_HWHEEL", horizontal>>>> ELSE <<>>) \o
    (IF vertical # 0 \/ horizontal # 0 THEN sync("mouse") ELSE <<>>)

\* VirtualMouse.click: an unknown button raises ValueError before any write
click(button, state) ==
    IF upper(button) \notin BUTTON_MAP THEN <<>>
    ELSE <<<<"mouse", upper(button), IF upper(state) = "DOWN" THEN 1 ELSE 0>>>>
            \o sync("mouse")

\* VirtualKeyboard.key_event: an unknown key raises ValueError before any write
key_event(key, state) ==
    IF upper(key) \notin KEY_MAP THEN <<>>
    ELSE <<<<"keyboard", upper(key), IF upper(state) = "DOWN" THEN 1 ELSE 0>>>>
            \o sync("keyboard")

(***************************************************************************)
(* WriterSpec: the threads that reach the smoother's lock and the uinput   *)
(* fds, step by step: the UDP loop inside add_movement, the pointer        *)
(* discharge loop inside a frame and inside Sink.move, the scroll          *)
(* discharge loop inside Sink.scroll, the TCP handler inside Sink.click    *)
(* and Sink.key_event.  Every os.write is a step of its own and may fail.  *)
(***************************************************************************)
\* a lock that lets everybody in
free_always(lock) == TRUE

\* `with self._lock`: the thread goes on when nobody holds the lock
free(lock) == lock = NoThread

\* the except clause that ends the thread
write_failed_ends_thread(th, t) ==
    [th EXCEPT !.todo[t] = <<>>, !.at[t] = "exited",
               !.lock = IF @ = t THEN NoThread ELSE @,
               !.failures = @ + 1]

\* the except clause that destroys the device
write_failed_closes_device(th, t) ==
    [th EXCEPT !.todo[t] = <<>>, !.at[t] = "loop",
               !.lock = IF @ = t THEN NoThread ELSE @,
               !.closed[Head(th.todo[t])[1]] = TRUE,
               !.failures = @ + 1]

\* os.write raises inside _write_event: the exception leaves move, scroll,
\* click or key_event, the callback of main.py logs it and returns, the
\* `with` of the discharge loop releases the lock
write_failed(th, t) ==
    [th EXCEPT !.todo[t] = <<>>, !.at[t] = "loop",
               !.lock = IF @ = t THEN NoThread ELSE @,
               !.failures = @ + 1]

\* os.write returns: the event is in the fd
written(th, t) ==
    LET event == Head(th.todo[t])
        done == Len(th.todo[t]) = 1
    IN  [th EXCEPT !.todo[t] = Tail(@),
                   !.mouse = IF event[1] = "mouse"
                             THEN Append(@, <<t, event[2], event[3]>>) ELSE @,
                   !.keyboard = IF event[1] = "keyboard"
                                THEN Append(@, <<t, event[2], event[3]>>) ELSE @,
                   !.at[t] = IF done THEN "loop" ELSE @,
                   !.lock = IF @ = t /\ done THEN NoThread ELSE @]

\* room for another Sink call
WriterRoom == Len(threads.mouse) + Len(threads.keyboard) < MaxWrites

\* the UDP loop in add_movement: the lock taken and the charge added
AddMovementEnter(dx, dy) ==
    /\ threads.at["udp"] = "loop"
    /\ free(threads.lock)
    /\ charged.calls < MaxMoves
    /\ frame <= LastInputFrame
    /\ input_smoother' = [input_smoother EXCEPT !.charge_x = @ + dx * Unit,
                                                !.charge_y = @ + dy * Unit]
    /\ threads' = [threads EXCEPT !.lock = "udp", !.at["udp"] = "add_movement",
                                  !.arg = <<dx, dy>>]
    /\ last' = [Op("add_movement_enter", FALSE, "", FALSE) EXCEPT
                    !.call = <<"add_movement", dx, dy>>]
    /\ UNCHANGED <<gate_vars, phase, tcp_vars, udp_vars, discovery_vars,
                   scroll_smoother, frame, sink, charged, tcp_stream, client_vars>>

\* the rest of add_movement: velocity, direction, flag and time, and the
\* lock released
AddMovementLeave ==
    /\ threads.at["udp"] = "add_movement"
    /\ LET dx == threads.arg[1]
           dy == threads.arg[2]
           before == [input_smoother EXCEPT !.charge_x = @ - dx * Unit,
                                            !.charge_y = @ - dy * Unit]
       IN  /\ input_smoother' = add_movement(before, dx, dy, frame)
           /\ charged' = [x |-> charged.x + dx, y |-> charged.y + dy,
                          calls |-> charged.calls + 1]
           /\ last' = [Op("add_movement", FALSE, "", FALSE) EXCEPT
                            !.call = <<"add_movement", dx, dy>>]
    /\ threads' = [threads EXCEPT !.lock = IF @ = "udp" THEN NoThread ELSE @,
                                  !.at["udp"] = "loop", !.arg = <<>>]
    /\ UNCHANGED <<gate_vars, phase, tcp_vars, udp_vars, discovery_vars,
                   scroll_smoother, frame, sink, tcp_stream, client_vars>>

\* the pointer discharge loop: the lock taken and the frame computed; with
\* integers to pass on the thread enters Sink.move holding the lock,
\* otherwise it releases the lock and sleeps
FrameEnter ==
    /\ threads.at["pointer"] = "loop"
    /\ free(threads.lock)
    /\ frame <= LastLockFrame
    /\ LET d == discharge(input_smoother, frame) IN
        /\ input_smoother' = d.sm
        /\ sink' = [x |-> sink.x + d.move[1], y |-> sink.y + d.move[2]]
        /\ IF d.move = <<0, 0>>
           THEN /\ threads' = threads
                /\ last' = Op("frame", FALSE, "", FALSE)
           ELSE /\ WriterRoom
                /\ threads' = [threads EXCEPT
                                    !.lock = "pointer", !.at["pointer"] = "write",
                                    !.todo["pointer"] = move(d.move[1], d.move[2])]
                /\ last' = [Op("frame", TRUE, "", FALSE) EXCEPT
                                !.call = <<"move", d.move[1], d.move[2]>>]
    /\ frame' = frame + 1
    /\ UNCHANGED <<gate_vars, phase, tcp_vars, udp_vars, discovery_vars,
                   scroll_smoother, charged, tcp_stream, client_vars>>

\* the scroll discharge loop hands the integers of a frame to Sink.scroll
\* (under ScrollSmoother._lock, which no other writer takes)
ScrollEnter(vertical, horizontal) ==
    /\ threads.at["scroll"] = "loop"
    /\ WriterRoom
    /\ threads' = [threads EXCEPT !.at["scroll"] = "write",
                                  !.todo["scroll"] = scroll(vertical, horizontal)]
    /\ last' = [Op("scroll_frame", TRUE, "", FALSE) EXCEPT
                    !.call = <<"scroll", vertical, horizontal>>]
    /\ UNCHANGED <<gate_vars, phase, tcp_vars, udp_vars, discovery_vars,
                   smoother_vars, tcp_stream, client_vars>>

\* the TCP handler forwards a CLICK line: _on_click calls Sink.click
ClickEnter(button, state) ==
    /\ threads.at["tcp"] = "loop"
    /\ WriterRoom
    /\ threads' = [threads EXCEPT !.at["tcp"] = "write",
                                  !.todo["tcp"] = click(button, state)]
    /\ last' = [Op("line", TRUE, "", FALSE) EXCEPT
                    !.call = <<"click", button, state>>]
    /\ UNCHANGED <<gate_vars, phase, tcp_vars, udp_vars, discovery_vars,
                   smoother_vars, tcp_stream, client_vars>>

\* the TCP handler forwards a KEY line: _on_key calls Sink.key_event
KeyEnter(key, state) ==
    /\ threads.at["tcp"] = "loop"
    /\ WriterRoom
    /\ threads' = [threads EXCEPT !.at["tcp"] = "write",
                                  !.todo["tcp"] = key_event(key, state)]
    /\ last' = [Op("line", TRUE, "", FALSE) EXCEPT
                    !.call = <<"key_event", key, state>>]
    /\ UNCHANGED <<gate_vars, phase, tcp_vars, udp_vars, discovery_vars,
                   smoother_vars, tcp_stream, client_vars>>

\* _write_event: the fd is there and os.write returns
Write(t) ==
    /\ threads.at[t] = "write"
    /\ ~threads.closed[Head(threads.todo[t])[1]]
    /\ threads' = written(threads, t)
    /\ last' = [Op("write", TRUE, "", FALSE) EXCEPT
                    !.call = <<t>> \o Head(threads.todo[t])]
    /\ UNCHANGED <<gate_vars, phase, tcp_vars, udp_vars, discovery_vars,
                   smoother_vars, tcp_stream, client_vars>>

\* _write_event: os.write raises, or the fd is gone and RuntimeError is raised
WriteFail(t) ==
    /\ threads.at[t] = "write"
    /\ threads.failures < MaxFailures
    /\ threads' = write_failed(threads, t)
    /\ last' = [Op("write", FALSE, "", FALSE) EXCEPT
                    !.call = <<t>> \o Head(threads.todo[t])]
    /\ UNCHANGED <<gate_vars, phase, tcp_vars, udp_vars, discovery_vars,
                   smoother_vars, tcp_stream, client_vars>>

WriterMoves == {<<7, 7>>}
WriterScrolls == {<<-1, 1>>}
WriterClicks == {<<"LEFT", "DOWN">>}
WriterKeys == {<<"KEY_A", "DOWN">>}

WriterNext ==
    \/ \E m \in WriterMoves : AddMovementEnter(m[1], m[2])
    \/ AddMovementLeave
    \/ FrameEnter
    \/ \E m \in WriterScrolls : ScrollEnter(m[1], m[2])
    \/ \E m \in WriterClicks : ClickEnter(m[1], m[2])
    \/ \E m \in WriterKeys : KeyEnter(m[1], m[2])
    \/ \E t \in Writers : Write(t)
    \/ \E t \in Writers : WriteFail(t)

WriterSpec == Init /\ [][WriterNext]_vars

(***************************************************************************)
(* ScrollSpec: the scroll smoother called directly, built with the         *)
(* parameters of main.py or with the defaults of the class.  scroll_smoother *)
(* holds the whole ScrollSmoother here; charged sums the arguments of the  *)
(* add_scroll calls (x horizontal, y vertical).                            *)
(***************************************************************************)
ScrollInit ==
    /\ InitButSmoothers
    /\ input_smoother = InputSmoother_init
    /\ scroll_smoother \in
            {ScrollSmoother_init, ScrollSmoother(DEFAULT_SCROLL_RATE, MOMENTUM_DECAY)}

Scrolls == {<<1, 0>>, <<-1, 0>>, <<10, 0>>, <<0, 3>>}

SAddScroll(vertical, horizontal) ==
    /\ charged.calls < MaxMoves
    /\ frame <= (IF charged.calls = 0 THEN LastInputFrame ELSE LastTurnFrame)
    /\ scroll_smoother' = add_scroll_at(scroll_smoother, vertical, horizontal, frame)
    /\ charged' = [x |-> charged.x + horizontal, y |-> charged.y + vertical,
                    calls |-> charged.calls + 1]
    /\ last' = [Op("add_scroll", FALSE, "", FALSE) EXCEPT
                    !.call = <<"add_scroll", vertical, horizontal>>]
    /\ UNCHANGED <<threads, gate_vars, phase, tcp_vars, udp_vars, discovery_vars,
                   input_smoother, frame, sink, tcp_stream, client_vars>>

\* ScrollSmoother._discharge_loop: one frame, then the sleep to the next one
ScrollDischarge ==
    /\ frame < MaxFrame
    /\ LET d == scroll_discharge(scroll_smoother, frame) IN
        /\ scroll_smoother' = d.sm
        /\ last' = [Op("scroll_frame", d.scroll # <<0, 0>>, "", FALSE) EXCEPT
                        !.call = IF d.scroll # <<0, 0>>
                                 THEN <<"scroll", d.scroll[1], d.scroll[2]>> ELSE <<>>]
    /\ frame' = frame + 1
    /\ UNCHANGED <<threads, gate_vars, phase, tcp_vars, udp_vars, discovery_vars,
                   input_smoother, sink, charged, tcp_stream, client_vars>>

ScrollNext ==
    \/ \E m \in Scrolls : SAddScroll(m[1], m[2])
    \/ ScrollDischarge

ScrollSpec == ScrollInit /\ [][ScrollNext]_vars

(***************************************************************************)
(* Spec: the running server.                                               *)
(***************************************************************************)
\* HotspotKBMServer.start: the first pairing code, then the three listeners
StartListeners ==
    /\ phase = "new"
    /\ \E c \in Codes :
        /\ auth_manager' = generate_code(auth_manager, c, now)
        /\ last' = Op("start", FALSE, "", FALSE)
    /\ validated_once' = FALSE
    /\ discovery_running' = TRUE
    /\ udp_running' = TRUE
    /\ tcp_running' = TRUE
    /\ phase' = "running"
    /\ UNCHANGED <<connection_manager, now, tcp_client_socket, tcp_authenticated,
                   handler, backlog, udp_pending, discovery_datagram, smoother_vars, tcp_stream,
                   client_vars>>

Start ==
    /\ StartListeners
    /\ UNCHANGED threads

\* a peer opens a TCP connection; the kernel queues it until accept()
ClientConnect(h) ==
    /\ tcp_running
    /\ h # handler
    /\ \A i \in 1..Len(backlog) : backlog[i] # h
    /\ Len(backlog) < LISTEN_BACKLOG
    /\ backlog' = Append(backlog, h)
    /\ known' = [known EXCEPT ![h] = auth_manager.code]
    /\ UNCHANGED raced
    /\ last' = Op("connect", FALSE, "", FALSE)
    /\ UNCHANGED <<threads, gate_vars, phase, tcp_running, tcp_client_socket, tcp_authenticated,
                   handler, udp_vars, discovery_vars, smoother_vars, tcp_stream>>

\* _accept_loop that does not wait for the handler thread
join_returns_at_once(running_handler) == TRUE

\* self._client_thread.join(): returns when the handler thread has finished
join(running_handler) == running_handler = NoHost

\* _accept_loop: accept() is reached only when no handler thread is running,
\* because the loop joins the handler thread before it accepts again
Accept ==
    /\ tcp_running
    /\ join(handler)
    /\ backlog # <<>>
    /\ handler' = Head(backlog)
    /\ backlog' = Tail(backlog)
    /\ tcp_client_socket' = SockOf(Head(backlog))
    /\ tcp_stream' = NoStream
    /\ last' = Op("accept", FALSE, "", FALSE)
    /\ UNCHANGED <<threads, gate_vars, phase, tcp_running, tcp_authenticated, udp_vars,
                   discovery_vars, smoother_vars, client_vars>>

\* _process_command on the tokens of one stripped line
ProcessCommand(parts) ==
    /\ handler # NoHost
    /\ LET to == process_command(tcp_authenticated, parts)
           a == on_auth(auth_manager, connection_manager, tcp_authenticated,
                        SockOf(handler), handler, parts[2], now)
           own == known[handler] # NoCode /\ parts[2] = known[handler]
       IN  IF to = "auth"
           THEN /\ auth_manager' = a.am
                /\ connection_manager' = a.cm
                /\ tcp_authenticated' = a.authenticated
                /\ validated_once' = (validated_once \/ a.valid)
                /\ raced' = IF own /\ a.reply = "AUTH_OK" /\ tcp_client_socket # NoSock
                            THEN [g \in Hosts |->
                                    raced[g] \/ \E i \in 1..Len(backlog) : backlog[i] = g]
                            ELSE raced
                /\ last' = [Op("auth", a.valid, a.reply, own) EXCEPT
                                !.sent = send_to_client(tcp_client_socket, a.reply)]
           ELSE /\ last' = [Op("line", to # "", "", FALSE) EXCEPT
                                !.call = sink_call(to, parts)]
                /\ UNCHANGED <<auth_manager, connection_manager, tcp_authenticated,
                               validated_once, raced>>
    /\ UNCHANGED <<threads, now, phase, tcp_running, tcp_client_socket, handler,
                   backlog, udp_vars, discovery_vars, smoother_vars, known>>

\* _handle_client reads one complete line and runs _process_command on it
ProcessLine(parts) ==
    /\ ProcessCommand(parts)
    /\ UNCHANGED tcp_stream

\* _handle_client leaves its loop (EOF, a read error, or _running cleared) and
\* runs its finally block, which ends with the disconnect callback
HandlerFinally ==
    /\ handler # NoHost
    /\ \E c \in Codes :
        LET d == on_disconnect(auth_manager, connection_manager, c, now) IN
        /\ auth_manager' = d.am
        /\ connection_manager' = d.cm
        /\ last' = Op("handler_exit", FALSE, "", connection_manager.connected)
    /\ validated_once' = FALSE
    /\ tcp_authenticated' = FALSE
    /\ tcp_client_socket' = NoSock
    /\ handler' = NoHost
    /\ known' = [known EXCEPT ![handler] = NoCode]
    /\ raced' = [raced EXCEPT ![handler] = FALSE]
    /\ UNCHANGED <<now, phase, tcp_running, backlog, udp_vars, discovery_vars,
                   smoother_vars, tcp_stream>>

HandlerExit ==
    /\ HandlerFinally
    /\ UNCHANGED threads

\* UDPInputListener._listen_loop, first half: recvfrom, the authorization
\* check under the session lock, the parse and the choice of the callback
UdpRecv(h, parts) ==
    /\ udp_running
    /\ udp_pending = <<>>
    /\ LET authorized == is_authorized_client(connection_manager, h)
           parsed == parse_packet(parts)
           call == authorized /\ parsed # <<>> /\ parsed[1] \in {"MOVE", "SCROLL"}
       IN  /\ parsed # <<>> /\ parsed[1] = "MOVE" =>
                /\ Abs(input_smoother.charge_x + parsed[2] * Unit) <= MaxCharge * Unit
                /\ Abs(input_smoother.charge_y + parsed[3] * Unit) <= MaxCharge * Unit
           /\ parsed # <<>> /\ parsed[1] = "SCROLL" =>
                /\ Abs(scroll_smoother.charge_v + parsed[2]) <= MaxCharge
                /\ Abs(scroll_smoother.charge_h + parsed[3]) <= MaxCharge
           /\ udp_pending' = IF call THEN parsed ELSE <<>>
           /\ last' = Op("udp_recv", authorized, "", call)
    /\ UNCHANGED <<threads, gate_vars, phase, tcp_vars, udp_running, discovery_vars,
                   smoother_vars, tcp_stream, client_vars>>

\* _listen_loop, second half: the callback charges a smoother under its lock
UdpDispatch ==
    /\ udp_pending # <<>>
    /\ IF udp_pending[1] = "MOVE"
       THEN /\ input_smoother' =
                    add_movement(input_smoother, udp_pending[2], udp_pending[3], frame)
            /\ charged' = [x |-> charged.x + udp_pending[2],
                            y |-> charged.y + udp_pending[3],
                            calls |-> charged.calls + 1]
            /\ UNCHANGED scroll_smoother
       ELSE /\ scroll_smoother' = add_scroll(scroll_smoother, udp_pending[2], udp_pending[3])
            /\ UNCHANGED <<input_smoother, charged>>
    /\ UNCHANGED <<threads, frame, sink>>
    /\ udp_pending' = <<>>
    /\ last' = [Op("udp_dispatch", TRUE, "", FALSE) EXCEPT
                    !.call = <<IF udp_pending[1] = "MOVE" THEN "add_movement"
                               ELSE "add_scroll",
                               udp_pending[2], udp_pending[3]>>]
    /\ UNCHANGED <<threads, gate_vars, phase, tcp_vars, tcp_stream, udp_running, discovery_vars,
                   client_vars>>

\* DiscoveryService._listen_loop on one datagram
DiscoveryRecv(h, message) ==
    /\ discovery_running
    /\ LET respond == strip(message) = DISCOVERY_MAGIC
                      /\ can_respond_to_discovery(connection_manager)
       IN  last' = Op("discovery", respond,
                      IF respond THEN build_response ELSE "",
                      strip(message) = DISCOVERY_MAGIC)
    /\ UNCHANGED <<gate_vars, server_vars>>

\* HotspotKBMServer.stop, first step: tcp_listener.stop() clears the flag and
\* closes the sockets, then waits in join(timeout) while the handler runs on
Stop ==
    /\ phase = "running"
    /\ tcp_running' = FALSE
    /\ tcp_client_socket' = NoSock
    /\ phase' = "stopping"
    /\ last' = Op("stop", FALSE, "", FALSE)
    /\ UNCHANGED <<threads, gate_vars, tcp_authenticated, handler, backlog, udp_vars,
                   discovery_vars, smoother_vars, tcp_stream, client_vars>>

\* the rest of stop(): udp_listener.stop(), discovery_service.stop() and, last,
\* connection_manager.disconnect().  The handler thread touches none of the
\* two flags, so its steps commute with clearing them and one step suffices.
StopFinish ==
    /\ phase = "stopping"
    /\ udp_running' = FALSE
    /\ discovery_running' = FALSE
    /\ connection_manager' = disconnect(connection_manager)
    /\ phase' = "stopped"
    /\ last' = Op("stop", FALSE, "", FALSE)
    /\ UNCHANGED <<threads, auth_manager, now, validated_once, tcp_vars, udp_pending,
                   discovery_datagram, smoother_vars, tcp_stream, client_vars>>

Next ==
    \/ Start
    \/ Tick
    \/ \E h \in Hosts : ClientConnect(h)
    \/ Accept
    \/ \E parts \in Lines : ProcessLine(parts)
    \/ HandlerExit
    \/ \E h \in Hosts, parts \in Datagrams : UdpRecv(h, parts)
    \/ UdpDispatch
    \/ \E h \in Hosts, message \in DiscoveryMessages : DiscoveryRecv(h, message)
    \/ Stop
    \/ StopFinish

Spec == Init /\ [][Next]_vars

(***************************************************************************)
(* StopSpec: the six loops of the running server and stop(), step by step. *)
(* A thread stands at the top of its loop ("loop"), in the call its loop   *)
(* waits in ("blocked": recvfrom, accept, recv, or the sleep to the next   *)
(* frame; "join": the accept loop waiting for the handler thread), or has  *)
(* left its loop ("exited").  Every socket has a timeout of one second and *)
(* every join of stop() has a timeout, so the waits end by themselves.     *)
(***************************************************************************)
Loops == {"discovery", "udp", "accept", "pointer", "scroll"}

\* the socket a loop waits on
socket_of(t) ==
    IF t = "accept" THEN "tcp" ELSE IF t = "tcp" THEN "client" ELSE t

\* `while True`
loop_test_always(t) == TRUE

\* `while self._running` of the loop of thread t
loop_test(t) ==
    IF t \in {"accept", "tcp"} THEN tcp_running
    ELSE IF t = "udp" THEN udp_running
    ELSE IF t = "discovery" THEN discovery_running
    ELSE threads.running[t]

\* HotspotKBMServer.start: the smoothers and the listeners are started
ServerStart ==
    /\ StartListeners
    /\ threads' = [threads EXCEPT !.running = [t \in {"pointer", "scroll"} |-> TRUE],
                                  !.open = {"tcp", "udp", "discovery"},
                                  !.at["tcp"] = "exited"]

\* the loop condition holds: the thread goes into its receive, its accept,
\* or its frame and the sleep after it
LoopEnter(t) ==
    /\ phase # "new"
    /\ threads.at[t] = "loop"
    /\ loop_test(t)
    /\ threads' = [threads EXCEPT !.at[t] = "blocked"]
    /\ last' = Op("loop", TRUE, "", FALSE)
    /\ UNCHANGED <<gate_vars, phase, tcp_vars, tcp_stream, udp_vars, discovery_vars,
                   smoother_vars, client_vars>>

\* the loop condition fails: the thread leaves its loop
LoopExit(t) ==
    /\ phase # "new"
    /\ threads.at[t] = "loop"
    /\ ~loop_test(t)
    /\ threads' = [threads EXCEPT !.at[t] = "exited"]
    /\ last' = Op("loop", FALSE, "", FALSE)
    /\ UNCHANGED <<gate_vars, phase, tcp_vars, tcp_stream, udp_vars, discovery_vars,
                   smoother_vars, client_vars>>

\* the wait ends: the sleep is over, or recvfrom or accept returned, timed
\* out (back to the loop condition) or raised OSError on the closed socket
\* (break)
Return(t) ==
    /\ threads.at[t] = "blocked"
    /\ threads' = [threads EXCEPT
                        !.at[t] = IF t \in {"pointer", "scroll"} \/ socket_of(t) \in threads.open
                                  THEN "loop" ELSE "exited"]
    /\ last' = Op("return", FALSE, "", FALSE)
    /\ UNCHANGED <<gate_vars, phase, tcp_vars, tcp_stream, udp_vars, discovery_vars,
                   smoother_vars, client_vars>>

\* accept() returns a connection: the handler thread is started and the
\* accept loop waits for it in join()
AcceptClient(h) ==
    /\ threads.at["accept"] = "blocked"
    /\ "tcp" \in threads.open
    /\ handler = NoHost
    /\ handler' = h
    /\ tcp_client_socket' = SockOf(h)
    /\ threads' = [threads EXCEPT !.at["accept"] = "join", !.at["tcp"] = "loop",
                                  !.open = @ \cup {"client"}]
    /\ last' = Op("accept", FALSE, "", FALSE)
    /\ UNCHANGED <<gate_vars, phase, tcp_running, tcp_authenticated, backlog, tcp_stream,
                   udp_vars, discovery_vars, smoother_vars, client_vars>>

\* self._client_thread.join() returns
JoinReturn ==
    /\ threads.at["accept"] = "join"
    /\ join(handler)
    /\ threads' = [threads EXCEPT !.at["accept"] = "loop"]
    /\ last' = Op("join", FALSE, "", FALSE)
    /\ UNCHANGED <<gate_vars, phase, tcp_vars, tcp_stream, udp_vars, discovery_vars,
                   smoother_vars, client_vars>>

\* _handle_client: the loop condition holds and the thread goes into recv
HandlerEnter ==
    /\ handler # NoHost
    /\ threads.at["tcp"] = "loop"
    /\ loop_test("tcp")
    /\ threads' = [threads EXCEPT !.at["tcp"] = "blocked"]
    /\ last' = Op("loop", TRUE, "", FALSE)
    /\ UNCHANGED <<gate_vars, phase, tcp_vars, tcp_stream, udp_vars, discovery_vars,
                   smoother_vars, client_vars>>

\* recv returns data, its lines are processed, or recv times out
HandlerReturn ==
    /\ handler # NoHost
    /\ threads.at["tcp"] = "blocked"
    /\ "client" \in threads.open
    /\ threads' = [threads EXCEPT !.at["tcp"] = "loop"]
    /\ last' = Op("return", FALSE, "", FALSE)
    /\ UNCHANGED <<gate_vars, phase, tcp_vars, tcp_stream, udp_vars, discovery_vars,
                   smoother_vars, client_vars>>

\* the handler leaves its loop because the loop condition fails or recv
\* raised OSError on the closed socket, and runs its finally block
HandlerLeave ==
    /\ \/ threads.at["tcp"] = "loop" /\ ~loop_test("tcp")
       \/ threads.at["tcp"] = "blocked" /\ "client" \notin threads.open
    /\ HandlerFinally
    /\ threads' = [threads EXCEPT !.at["tcp"] = "exited", !.open = @ \ {"client"}]

\* the peer closes the connection: recv returns no data
HandlerEof ==
    /\ threads.at["tcp"] = "blocked"
    /\ "client" \in threads.open
    /\ HandlerFinally
    /\ threads' = [threads EXCEPT !.at["tcp"] = "exited", !.open = @ \ {"client"}]

\* stop(), first statement: tcp_listener.stop() clears the flag and closes
\* the client socket and the listening socket; its joins time out
StopTcp ==
    /\ phase = "running"
    /\ tcp_running' = FALSE
    /\ tcp_client_socket' = NoSock
    /\ threads' = [threads EXCEPT !.open = @ \ {"client", "tcp"}]
    /\ phase' = "stopping"
    /\ last' = Op("stop", FALSE, "", FALSE)
    /\ UNCHANGED <<gate_vars, tcp_authenticated, handler, backlog, udp_vars,
                   discovery_vars, smoother_vars, tcp_stream, client_vars>>

\* udp_listener.stop()
StopUdp ==
    /\ phase = "stopping"
    /\ udp_running' = FALSE
    /\ threads' = [threads EXCEPT !.open = @ \ {"udp"}]
    /\ phase' = "stopped udp"
    /\ last' = Op("stop", FALSE, "", FALSE)
    /\ UNCHANGED <<gate_vars, tcp_vars, udp_pending, discovery_vars, smoother_vars,
                   tcp_stream, client_vars>>

\* discovery_service.stop()
StopDiscovery ==
    /\ phase = "stopped udp"
    /\ discovery_running' = FALSE
    /\ threads' = [threads EXCEPT !.open = @ \ {"discovery"}]
    /\ phase' = "stopped discovery"
    /\ last' = Op("stop", FALSE, "", FALSE)
    /\ UNCHANGED <<gate_vars, tcp_vars, udp_vars, discovery_datagram, smoother_vars,
                   tcp_stream, client_vars>>

\* input_smoother.stop(), then scroll_smoother.stop()
StopSmoother(t) ==
    /\ \/ t = "pointer" /\ phase = "stopped discovery" /\ phase' = "stopped pointer"
       \/ t = "scroll" /\ phase = "stopped pointer" /\ phase' = "stopped scroll"
    /\ threads' = [threads EXCEPT !.running[t] = FALSE]
    /\ last' = Op("stop", FALSE, "", FALSE)
    /\ UNCHANGED <<gate_vars, tcp_vars, udp_vars, discovery_vars, smoother_vars,
                   tcp_stream, client_vars>>

\* keyboard.close(), mouse.close() and connection_manager.disconnect()
StopDevices ==
    /\ phase = "stopped scroll"
    /\ threads' = [threads EXCEPT !.closed = [fd \in DOMAIN @ |-> TRUE]]
    /\ connection_manager' = disconnect(connection_manager)
    /\ phase' = "stopped"
    /\ last' = Op("stop", FALSE, "", FALSE)
    /\ UNCHANGED <<auth_manager, now, validated_once, tcp_vars, udp_vars,
                   discovery_vars, smoother_vars, tcp_stream, client_vars>>

\* the statements of stop() after the first
StopRest ==
    \/ StopUdp
    \/ StopDiscovery
    \/ \E t \in {"pointer", "scroll"} : StopSmoother(t)
    \/ StopDevices

StopNext ==
    \/ ServerStart
    \/ \E t \in Loops : LoopEnter(t)
    \/ \E t \in Loops : LoopExit(t)
    \/ \E t \in Loops : Return(t)
    \/ \E h \in Hosts : AcceptClient(h)
    \/ JoinReturn
    \/ HandlerEnter
    \/ HandlerReturn
    \/ HandlerLeave
    \/ HandlerEof
    \/ StopTcp
    \/ StopRest

\* every thread that can take a step takes it, and stop() runs to its end
\* once it has begun
StopFairness ==
    /\ \A t \in Loops : WF_vars(LoopEnter(t) \/ LoopExit(t) \/ Return(t))
    /\ WF_vars(JoinReturn)
    /\ WF_vars(HandlerEnter \/ HandlerReturn \/ HandlerLeave)
    /\ WF_vars(StopRest)

StopSpec == Init /\ [][StopNext]_vars /\ StopFairness

(***************************************************************************)
(* InputSpec: the running server with the discharge loop of the pointer    *)
(* smoother; the peers send AUTH lines and MOVE datagrams only.            *)
(***************************************************************************)
\* the discharge thread runs from start() on
Frame ==
    /\ phase = "running"
    /\ Discharge

InputLines == {<<"AUTH", c>> : c \in Codes}
\* the one line the peers of InputSpec send: it is the displayed code or not,
\* as start() and the disconnect callback draw the code from Codes
InputAuth == <<"AUTH", <<"1", "4", "7", "2", "5", "8">> >>
InputDatagrams == {<<"move", "1", "0">>}

InputNext ==
    \/ Start
    \/ \E h \in Hosts : ClientConnect(h)
    \/ Accept
    \/ ProcessLine(InputAuth)
    \/ HandlerExit
    \/ \E h \in Hosts, parts \in InputDatagrams : UdpRecv(h, parts)
    \/ UdpDispatch
    \/ Frame

InputSpec == Init /\ [][InputNext]_vars

(***************************************************************************)
(* DiscoverySpec: the running server with the receive queue of the         *)
(* discovery socket.  A datagram waits in the socket until _listen_loop    *)
(* reads it, and the loop is scheduled again and again.                    *)
(***************************************************************************)
DiscoveryProbes == {DISCOVERY_MAGIC, <<"HELLO">>}

\* the socket receives a datagram; after_disconnect records that it did so
\* right after a handler's disconnect callback had completed
DiscoveryArrive(h, message) ==
    /\ discovery_running
    /\ discovery_datagram.read
    /\ discovery_datagram' = [message |-> message,
                              after_disconnect |-> last.op = "handler_exit",
                              read |-> FALSE]
    /\ last' = Op("discovery_arrive", FALSE, "", FALSE)
    /\ UNCHANGED <<threads, gate_vars, phase, tcp_vars, udp_vars, discovery_running,
                   smoother_vars, tcp_stream, client_vars>>

\* DiscoveryService._listen_loop: recvfrom returns the waiting datagram
DiscoveryRead ==
    /\ discovery_running
    /\ ~discovery_datagram.read
    /\ LET message == discovery_datagram.message
           respond == strip(message) = DISCOVERY_MAGIC
                      /\ can_respond_to_discovery(connection_manager)
       IN  last' = Op("discovery", respond,
                      IF respond THEN build_response ELSE "",
                      strip(message) = DISCOVERY_MAGIC)
    /\ discovery_datagram' = [discovery_datagram EXCEPT !.read = TRUE]
    /\ UNCHANGED <<threads, gate_vars, phase, tcp_vars, udp_vars, discovery_running,
                   smoother_vars, tcp_stream, client_vars>>

DiscoveryNext ==
    \/ Start
    \/ \E h \in Hosts : ClientConnect(h)
    \/ Accept
    \/ \E parts \in InputLines : ProcessLine(parts)
    \/ HandlerExit
    \/ \E h \in Hosts, message \in DiscoveryProbes : DiscoveryArrive(h, message)
    \/ DiscoveryRead
    \/ Stop
    \/ StopFinish

DiscoverySpec == Init /\ [][DiscoveryNext]_vars /\ WF_vars(DiscoveryRead)

(***************************************************************************)
(* FaultSpec: the running server whose receivers can meet a socket error.  *)
(* recvfrom and accept raise OSError while _running is set: the except     *)
(* clause logs it and breaks, so the thread leaves its loop (threads.at is *)
(* "exited") and the datagrams and connections it served stay unread.      *)
(***************************************************************************)
\* the threads that wait in recvfrom or accept
Receivers == {"discovery", "udp", "accept"}

\* `except OSError: ... break` that brings every receiver down
socket_error_stops_all(th, t) ==
    [th EXCEPT !.at = [u \in Threads |-> IF u \in Receivers THEN "exited" ELSE @[u]]]

\* `except OSError: ... break` in the loop of receiver t
socket_error(th, t) == [th EXCEPT !.at[t] = "exited"]

\* the socket call of receiver t raises OSError; the accept loop is in
\* accept() only while no handler thread runs, the UDP loop in recvfrom only
\* between two datagrams
SocketError(t) ==
    /\ phase = "running"
    /\ threads.at[t] = "loop"
    /\ t = "accept" => handler = NoHost
    /\ t = "udp" => udp_pending = <<>>
    /\ threads' = socket_error(threads, t)
    /\ last' = [Op("socket_error", FALSE, "", FALSE) EXCEPT !.call = <<t>>]
    /\ UNCHANGED <<gate_vars, phase, tcp_vars, tcp_stream, udp_vars, discovery_vars,
                   smoother_vars, client_vars>>

\* the steps of a receiver, taken while its thread is in its loop
FaultAccept ==
    /\ threads.at["accept"] = "loop"
    /\ Accept

FaultUdpRecv(h, parts) ==
    /\ threads.at["udp"] = "loop"
    /\ UdpRecv(h, parts)

FaultDiscoveryRecv(h, message) ==
    /\ threads.at["discovery"] = "loop"
    /\ DiscoveryRecv(h, message)

FaultLines == {InputAuth, <<"CLICK", "left", "DOWN">>}

FaultNext ==
    \/ Start
    \/ \E h \in Hosts : ClientConnect(h)
    \/ FaultAccept
    \/ \E parts \in FaultLines : ProcessLine(parts)
    \/ HandlerExit
    \/ \E h \in Hosts, parts \in InputDatagrams : FaultUdpRecv(h, parts)
    \/ UdpDispatch
    \/ \E h \in Hosts : FaultDiscoveryRecv(h, DISCOVERY_MAGIC)
    \/ \E t \in Receivers : SocketError(t)

FaultSpec == Init /\ [][FaultNext]_vars

(***************************************************************************)
(* StreamSpec: one connection at the level of bytes.  The peer writes a    *)
(* text, recv returns it in pieces of any size, and _handle_client cuts    *)
(* its buffer at the newlines.  A text is a sequence of characters.        *)
(***************************************************************************)
\* how the words of the protocol are spelled
Spelling ==
    [AUTH  |-> <<"A", "U", "T", "H">>,
     CLICK |-> <<"C", "L", "I", "C", "K">>,
     KEY   |-> <<"K", "E", "Y">>,
     LEFT  |-> <<"L", "E", "F", "T">>,
     UP    |-> <<"U", "P">>,
     KEY_A |-> <<"K", "E", "Y", "_", "A">>]

\* str.find: the index of the first c in s, 0 when there is none
RECURSIVE find(_, _)
find(s, c) ==
    IF s = <<>> THEN 0
    ELSE IF Head(s) = c THEN 1
    ELSE LET i == find(Tail(s), c) IN IF i = 0 THEN 0 ELSE i + 1

\* buffer.split('\n', 1) that throws the rest of the buffer away
split_first_drops_rest(buffer) ==
    LET i == find(buffer, "\n") IN
    [line |-> SubSeq(buffer, 1, i - 1), rest |-> <<>>]

\* buffer.split('\n', 1), for a buffer that holds a newline
split_first(buffer) ==
    LET i == find(buffer, "\n") IN
    [line |-> SubSeq(buffer, 1, i - 1), rest |-> SubSeq(buffer, i + 1, Len(buffer))]

\* str.split(): the words between the runs of whitespace
RECURSIVE split(_)
split(s) ==
    LET t == lstrip(s) IN
    IF t = <<>> THEN <<>>
    ELSE LET n == find(t \o <<" ">>, " ") IN
         <<SubSeq(t, 1, n - 1)>> \o split(SubSeq(t, n + 1, Len(t)))

\* a word as the token the line-level operators compare: its name when it is
\* a word of the protocol, "?" otherwise
word(chars) ==
    IF \E w \in DOMAIN Spelling : Spelling[w] = chars
    THEN CHOOSE w \in DOMAIN Spelling : Spelling[w] = chars
    ELSE "?"

\* command.split() as tokens; the argument of AUTH stays the string it is
tokens(command) ==
    LET ws == split(command) IN
    [i \in 1..Len(ws) |->
        IF i = 2 /\ word(ws[1]) = "AUTH" THEN ws[2] ELSE word(ws[i])]

\* the texts a peer writes: commands before and after AUTH, an empty line,
\* and a last command whose newline is never sent
Streams ==
    LET sp == <<" ">>
        nl == <<"\n">>
        click_line == Spelling.CLICK \o sp \o Spelling.LEFT \o sp \o Spelling.UP
        key_line == Spelling.KEY \o sp \o Spelling.UP \o sp \o Spelling.KEY_A
    IN  UNION {{Spelling.AUTH \o sp \o c \o nl \o key_line \o nl \o click_line \o nl \o click_line,
                click_line \o nl \o Spelling.AUTH \o sp \o c \o nl \o nl \o click_line \o nl
                    \o key_line \o nl \o Spelling.KEY} : c \in Codes}

\* the peer being served writes its text
StreamSend(bytes) ==
    /\ handler # NoHost
    /\ ~tcp_stream.sent
    /\ tcp_stream' = [tcp_stream EXCEPT !.wire = bytes, !.sent = TRUE]
    /\ last' = Op("send", FALSE, "", FALSE)
    /\ UNCHANGED <<threads, gate_vars, phase, tcp_vars, udp_vars, discovery_vars,
                   smoother_vars, client_vars>>

\* _handle_client: recv returns the next k bytes, which join the buffer
StreamRecv(k) ==
    /\ handler # NoHost
    /\ tcp_running
    /\ find(tcp_stream.buffer, "\n") = 0
    /\ k <= Len(tcp_stream.wire)
    /\ tcp_stream' =
            [tcp_stream EXCEPT
                !.wire = SubSeq(@, k + 1, Len(@)),
                !.buffer = @ \o SubSeq(tcp_stream.wire, 1, k),
                !.received = @ \o SubSeq(tcp_stream.wire, 1, k)]
    /\ last' = Op("recv", FALSE, "", FALSE)
    /\ UNCHANGED <<threads, gate_vars, phase, tcp_vars, udp_vars, discovery_vars,
                   smoother_vars, client_vars>>

\* _handle_client: while the buffer holds a newline, the text before it is
\* cut off, stripped and handed to _process_command
StreamLine ==
    /\ handler # NoHost
    /\ find(tcp_stream.buffer, "\n") # 0
    /\ LET cut == split_first(tcp_stream.buffer) IN
        /\ ProcessCommand(tokens(strip(cut.line)))
        /\ tcp_stream' =
                [tcp_stream EXCEPT
                    !.buffer = cut.rest,
                    !.processed = Append(@, [line |-> cut.line,
                                             authenticated |-> tcp_authenticated]),
                    !.calls = IF last'.call # <<>> THEN Append(@, last'.call) ELSE @]

StreamNext ==
    \/ Start
    \/ \E h \in Hosts : ClientConnect(h)
    \/ Accept
    \/ \E bytes \in Streams : StreamSend(bytes)
    \/ \E k \in 1..Min(RECV_SIZE, Len(tcp_stream.wire)) : StreamRecv(k)
    \/ StreamLine
    \/ HandlerExit

StreamSpec == Init /\ [][StreamNext]_vars

(***************************************************************************)
(* The claims.                                                             *)
(***************************************************************************)

\* C1: try_connect returns True and records (ip, sock) only when no session
\* is active; when one is active it returns False and leaves the recorded
\* peer, socket and flag as they were.  So from one disconnect to the next at
\* most one try_connect succeeds, and the peer recorded is the one it named.
C1_TryConnectExclusive ==
    /\ [](connection_manager.connected <=> connection_manager.active_client_ip # NoHost)
    /\ [][\A ip \in Hosts, sock \in Socks :
            GTryConnect(ip, sock) =>
                IF connection_manager.connected
                THEN ~last'.ret /\ connection_manager' = connection_manager
                ELSE /\ last'.ret
                     /\ connection_manager'.connected
                     /\ connection_manager'.active_client_ip = ip
                     /\ connection_manager'.active_client_socket = sock]_vars

\* a second peer called try_connect during a session and was turned away
C1_Witness ==
    /\ last.op = "try_connect"
    /\ last.mark
    /\ ~last.ret
    /\ connection_manager.connected

\* C2: is_authorized_client(ip) holds only for the peer of the active session
\* (for none while disconnected), and a datagram from any other address sets
\* up no add_movement / add_scroll call and leaves both smoothers as they
\* were; a smoother changes only in the dispatch of a datagram that passed
\* the check.
C2_UnauthorizedUdpIgnored ==
    /\ [](\A ip \in Hosts :
            is_authorized_client(connection_manager, ip) =>
                connection_manager.connected /\ connection_manager.active_client_ip = ip)
    /\ [][\A h \in Hosts, parts \in Datagrams :
            (UdpRecv(h, parts)
             /\ ~(connection_manager.connected
                  /\ connection_manager.active_client_ip = h))
            => /\ ~last'.ret
               /\ ~last'.mark
               /\ udp_pending' = <<>>
               /\ UNCHANGED smoother_vars]_vars
    /\ [][smoother_vars' # smoother_vars => udp_pending # <<>> /\ last'.op = "udp_dispatch"]_vars

\* during a session a datagram arrived from an address that is not the peer's
C2_Witness ==
    /\ last.op = "udp_recv"
    /\ ~last.ret
    /\ connection_manager.connected
    /\ udp_pending = <<>>

\* C3 (as claimed): of two peers whose connections are open at the same
\* time and who both send AUTH with the code that was valid when they
\* connected, one receives AUTH_OK and the other AUTH_FAIL:ALREADY_CONNECTED.
\* raced[handler] says the peer served before received AUTH_OK for its known
\* code while this peer's connection waited; so this peer is "the other".
C3_SecondPeerAlreadyConnected ==
    (/\ last.op = "auth"
     /\ last.mark
     /\ handler # NoHost
     /\ raced[handler]
     /\ tcp_client_socket # NoSock)
    => last.reply = "AUTH_FAIL:ALREADY_CONNECTED"

\* C4 (as claimed): after one successful validation, validate_code does not
\* return True again before the next generate_code.
C4_ValidateAtMostOnce ==
    [][(last'.op = "auth" /\ last'.ret) => ~validated_once]_vars

\* input is code with whitespace on either side, stated without strip
TrimsTo(input, code) ==
    \E i \in 1..(Len(input) + 1), j \in 0..Len(input) :
        /\ SubSeq(input, i, j) = code
        /\ \A k \in 1..Len(input) : (k < i \/ k > j) => input[k] \in Whitespace

\* the code stored in am has outlived its validity window at time t
Expired(am, t) ==
    am.code # NoCode /\ am.generated_at # NoTime /\ t - am.generated_at > AuthTimeout

\* the code stored in am is within its validity window at time t
InWindow(am, t) ==
    am.code # NoCode /\ am.generated_at # NoTime /\ t - am.generated_at <= AuthTimeout

\* C5: validate_code returns True only if a code is stored, no more than the
\* timeout has elapsed since generate_code, and the input without its
\* surrounding whitespace is the stored code; then authenticated is set.
C5_ValidateOnlyIf ==
    [][\A input \in GateInputs :
        (GValidate(input) /\ last'.ret)
        => /\ InWindow(auth_manager, now)
           /\ TrimsTo(input, auth_manager.code)
           /\ auth_manager'.authenticated]_vars

\* validate_code accepted a code
C5_Witness ==
    /\ last.op = "validate_code"
    /\ last.ret
    /\ auth_manager.authenticated

\* C6: an AUTH whose validate_code call finds the code expired is answered
\* AUTH_FAIL:INVALID_CODE and clears the stored code and time; while no code
\* is stored every AUTH is answered the same way, and a code is stored again
\* only by generate_code (server start, disconnect callback).
C6_ExpiryOneShot ==
    /\ [][last'.op = "auth" =>
            /\ Expired(auth_manager, now) =>
                    /\ ~last'.ret
                    /\ last'.reply = "AUTH_FAIL:INVALID_CODE"
                    /\ auth_manager'.code = NoCode
                    /\ auth_manager'.generated_at = NoTime
            /\ auth_manager.code = NoCode =>
                    /\ ~last'.ret
                    /\ last'.reply = "AUTH_FAIL:INVALID_CODE"
                    /\ auth_manager'.code = NoCode]_vars
    /\ [][(auth_manager.code = NoCode /\ auth_manager'.code # NoCode)
            => last'.op \in {"start", "handler_exit"}]_vars

\* a peer sent the code it learned at connect and was refused because the
\* code had expired and is now cleared
C6_Witness ==
    /\ last.op = "auth"
    /\ last.mark
    /\ ~last.ret
    /\ last.reply = "AUTH_FAIL:INVALID_CODE"
    /\ auth_manager.code = NoCode

\* C7: an AUTH refused for a wrong code within the validity window leaves the
\* Auth Gate, the Session Gate and the connection's authenticated flag as
\* they were.
C7_RejectionChangesNothing ==
    [][(last'.op = "auth" /\ ~last'.ret /\ InWindow(auth_manager, now))
        => /\ last'.reply = "AUTH_FAIL:INVALID_CODE"
           /\ UNCHANGED <<auth_manager, connection_manager, tcp_authenticated>>]_vars

\* a wrong code was refused on the connection of an established session
C7_Witness ==
    /\ last.op = "auth"
    /\ ~last.ret
    /\ InWindow(auth_manager, now)
    /\ auth_manager.authenticated
    /\ connection_manager.connected
    /\ tcp_authenticated

\* C8: generate_code stores the new code only, restarts the validity window
\* at the time of the call and clears authenticated: right after it the code
\* it replaced is refused when it differs, and the new code is accepted for
\* exactly AuthTimeout more ticks.
C8_GenerateReplaces ==
    [][\A c \in Codes :
        GGenerate(c)
        => /\ auth_manager'.code = c
           /\ auth_manager'.generated_at = now
           /\ ~auth_manager'.authenticated
           /\ (auth_manager.code # NoCode /\ auth_manager.code # c)
                => ~validate_code(auth_manager', auth_manager.code, now).ret
           /\ \A k \in 0..(AuthTimeout + 1) :
                validate_code(auth_manager', c, now + k).ret <=> (k <= AuthTimeout)]_vars

\* generate_code replaced another code at a later time
C8_Witness ==
    /\ last.op = "generate_code"
    /\ last.mark
    /\ auth_manager.generated_at > 0

\* C9: reset leaves the manager as __init__ did, whatever it was before;
\* applied again it changes nothing; and in that state validate_code
\* returns False for every input and changes nothing.
C9_ResetToInitial ==
    /\ [][GReset =>
            /\ auth_manager' = AuthManager_init
            /\ reset(auth_manager') = auth_manager'
            /\ \A input \in GateInputs :
                  /\ ~validate_code(auth_manager', input, now).ret
                  /\ validate_code(auth_manager', input, now).am = auth_manager']_vars
    /\ [][\A input \in GateInputs :
            (GValidate(input) /\ auth_manager = AuthManager_init)
            => ~last'.ret /\ auth_manager' = auth_manager]_vars

\* reset was called on a manager that was not in its initial state
C9_Witness ==
    /\ last.op = "reset"
    /\ last.mark
    /\ auth_manager = AuthManager_init

\* C10: the session becomes Connected only in the processing of an AUTH line
\* that validate_code accepted, and then for the peer of that connection; it
\* becomes Disconnected only in the exit of a client handler or in stop();
\* it never passes from one peer to another; and no datagram, discovery
\* packet, CLICK or KEY line, connection or accept changes it.
C10_SessionTransitions ==
    [][/\ (~connection_manager.connected /\ connection_manager'.connected)
            => /\ last'.op = "auth"
               /\ last'.ret
               /\ last'.reply = "AUTH_OK"
               /\ connection_manager'.active_client_ip = handler
       /\ (connection_manager.connected /\ ~connection_manager'.connected)
            => last'.op \in {"handler_exit", "stop"}
       /\ (connection_manager.connected /\ connection_manager'.connected)
            => connection_manager' = connection_manager
       /\ last'.op \in {"udp_recv", "udp_dispatch", "discovery", "line", "tick",
                        "connect", "accept"}
            => connection_manager' = connection_manager]_vars

\* a session that an accepted AUTH opened was ended by the handler's exit
C10_Witness ==
    /\ last.op = "handler_exit"
    /\ last.mark
    /\ ~connection_manager.connected

\* C11: every line whose first word is AUTH (in any case) and that has a
\* second word reaches _on_auth, whether or not the connection is already
\* authenticated, and _on_auth hands exactly one message to send_to_client:
\* AUTH_OK when validate_code accepted and no session was active (the session
\* is then Connected for this peer and the connection's flag is set),
\* AUTH_FAIL:ALREADY_CONNECTED when validate_code accepted and a session was
\* active, AUTH_FAIL:INVALID_CODE when validate_code refused; in the last two
\* cases the session and the flag stay as they were.  The message is written
\* to the connection's socket as long as the listener holds it.
C11_AuthReply ==
    [][last'.op \in {"auth", "line"} =>
       \A parts \in Lines :
        (ProcessLine(parts) /\ Len(parts) >= 2 /\ upper(parts[1]) = "AUTH")
        => /\ last'.op = "auth"
           /\ last'.ret = validate_code(auth_manager, parts[2], now).ret
           /\ last'.reply =
                IF last'.ret /\ ~connection_manager.connected THEN "AUTH_OK"
                ELSE IF last'.ret THEN "AUTH_FAIL:ALREADY_CONNECTED"
                ELSE "AUTH_FAIL:INVALID_CODE"
           /\ last'.reply = "AUTH_OK" =>
                /\ connection_manager'.connected
                /\ connection_manager'.active_client_ip = handler
                /\ tcp_authenticated'
           /\ last'.reply # "AUTH_OK" =>
                UNCHANGED <<connection_manager, tcp_authenticated>>
           /\ tcp_client_socket # NoSock => last'.sent = last'.reply
           /\ tcp_client_socket = NoSock => last'.sent = ""]_vars

\* on a connection that is already authenticated a further AUTH with the
\* valid code was processed and answered AUTH_FAIL:ALREADY_CONNECTED
C11_Witness ==
    /\ last.op = "auth"
    /\ last.ret
    /\ last.sent = "AUTH_FAIL:ALREADY_CONNECTED"
    /\ tcp_authenticated
    /\ connection_manager.connected

\* C12: a client handler ends in one exit, which runs the disconnect
\* callback: the handler thread is gone afterwards, so the callback runs once
\* per handler, and a handler ends in no other way.  After the exit the
\* session is Disconnected with nothing recorded, the connection's
\* authenticated flag and the listener's client socket are cleared, and the
\* Auth Gate holds a code drawn in this exit, with its window starting now
\* and authenticated false: the reset came before generate_code.  No other
\* step of the running server stores a code.
C12_DisconnectCallback ==
    /\ [][last'.op = "handler_exit" =>
            /\ handler # NoHost
            /\ handler' = NoHost
            /\ connection_manager' = ConnectionManager_init
            /\ ~tcp_authenticated'
            /\ tcp_client_socket' = NoSock
            /\ auth_manager'.code \in Codes
            /\ auth_manager'.generated_at = now
            /\ ~auth_manager'.authenticated]_vars
    /\ [][handler' # handler =>
            \/ handler = NoHost /\ last'.op = "accept"
            \/ handler' = NoHost /\ last'.op = "handler_exit"]_vars
    /\ [][(auth_manager'.code # auth_manager.code /\ auth_manager'.code # NoCode)
            => last'.op \in {"start", "handler_exit"}]_vars

\* the handler of an authenticated peer ended at a later time: the session is
\* gone and a code with a new window is stored
C12_Witness ==
    /\ last.op = "handler_exit"
    /\ last.mark
    /\ now > 0
    /\ auth_manager.generated_at = now
    /\ ~auth_manager.authenticated
    /\ ~tcp_authenticated
    /\ ~connection_manager.connected

\* C13 (as claimed): once the disconnect callback has left the session
\* Disconnected, nothing a departed peer sent reaches the Sink or a smoother.
\* Every charge stems from a datagram that passed the authorization check
\* while a session was active, so while no session is active no frame of the
\* discharge loop calls Sink.move, and no datagram is charged into a
\* smoother.
C13_NoDepartedInput ==
    [][/\ (last'.op = "frame" /\ last'.ret) => connection_manager.connected
       /\ last'.op = "udp_dispatch" => connection_manager.connected]_vars

\* C14: a discovery datagram is answered, with the five-line advert, exactly
\* when its payload is the magic string with whitespace around it and no
\* session is active at the time of the check; so while a session is active
\* no datagram from any host is answered, and a payload that is not the magic
\* string never is.  The datagram changes nothing in the server.
C14_DiscoveryAnswer ==
    /\ [](\A message \in DiscoveryMessages :
            (strip(message) = DISCOVERY_MAGIC) <=> TrimsTo(message, DISCOVERY_MAGIC))
    /\ [][last'.op = "discovery" =>
            /\ last'.ret <=> (last'.mark /\ ~connection_manager.connected)
            /\ last'.reply = IF last'.ret THEN build_response ELSE ""
            /\ UNCHANGED <<gate_vars, server_vars>>]_vars

\* the magic string arrived while a session was active and got no answer
C14_Witness ==
    /\ last.op = "discovery"
    /\ last.mark
    /\ ~last.ret
    /\ last.reply = ""
    /\ connection_manager.connected

\* the pointer smoother holds no charge and has left its active state: no
\* frame emits anything until the next add_movement
Quiescent ==
    /\ input_smoother.charge_x = 0
    /\ input_smoother.charge_y = 0
    /\ ~input_smoother.is_active

ClickLine(parts) ==
    /\ Len(parts) >= 3
    /\ upper(parts[1]) = "CLICK"
    /\ upper(parts[2]) \in {"LEFT", "RIGHT", "MIDDLE"}
    /\ upper(parts[3]) \in {"DOWN", "UP"}

KeyLine(parts) ==
    /\ Len(parts) >= 3
    /\ upper(parts[1]) = "KEY"
    /\ upper(parts[3]) \in KEY_MAP
    /\ upper(parts[2]) \in {"DOWN", "UP"}

\* C16: a line that is no AUTH line reaches Sink.click (Sink.key_event)
\* exactly when it is a well-formed CLICK (KEY) line and the connection it
\* came on has been answered AUTH_OK and its handler has not finished; the
\* listener's flag is raised by an AUTH_OK only and is down whenever another
\* connection begins or ends; and such a line, forwarded or not, gets no
\* reply and changes no state.
C16_ClickKeyGate ==
    /\ [][last'.op = "line" => \A parts \in Lines :
            ProcessLine(parts) =>
                /\ last'.call =
                        IF tcp_authenticated /\ ClickLine(parts)
                        THEN <<"click", upper(parts[2]), upper(parts[3])>>
                        ELSE IF tcp_authenticated /\ KeyLine(parts)
                        THEN <<"key_event", upper(parts[3]), upper(parts[2])>>
                        ELSE <<>>
                /\ last'.ret <=> last'.call # <<>>
                /\ last'.reply = "" /\ last'.sent = ""
                /\ handler # NoHost
                /\ UNCHANGED <<gate_vars, server_vars>>]_vars
    /\ [][last'.call # <<>> /\ last'.call[1] \in {"click", "key_event"}
            => last'.op = "line"]_vars
    /\ [][~tcp_authenticated /\ tcp_authenticated'
            => last'.op = "auth" /\ last'.reply = "AUTH_OK" /\ handler' = handler]_vars
    /\ [][handler' # handler => ~tcp_authenticated']_vars

\* a click is forwarded on the authenticated connection
C16_Witness ==
    /\ last.op = "line"
    /\ last.call = <<"click", "LEFT", "DOWN">>
    /\ tcp_authenticated
    /\ handler # NoHost

\* the lines of a text whose newline is in the text, in order
RECURSIVE CompleteLines(_)
CompleteLines(bytes) ==
    LET i == find(bytes, "\n") IN
    IF i = 0 THEN <<>>
    ELSE <<SubSeq(bytes, 1, i - 1)>> \o CompleteLines(SubSeq(bytes, i + 1, Len(bytes)))

\* the text after the last newline
RECURSIVE AfterLastNewline(_)
AfterLastNewline(bytes) ==
    LET i == find(bytes, "\n") IN
    IF i = 0 THEN bytes ELSE AfterLastNewline(SubSeq(bytes, i + 1, Len(bytes)))

\* the Sink calls C16 prescribes for the processed lines, in their order
RECURSIVE ExpectedCalls(_)
ExpectedCalls(done) ==
    IF done = <<>> THEN <<>>
    ELSE LET parts == tokens(strip(Head(done).line))
             call == IF Head(done).authenticated /\ ClickLine(parts)
                     THEN <<<<"click", parts[2], parts[3]>>>>
                     ELSE IF Head(done).authenticated /\ KeyLine(parts)
                     THEN <<<<"key_event", parts[3], parts[2]>>>>
                     ELSE <<>>
         IN  call \o ExpectedCalls(Tail(done))

\* C17: whatever the pieces recv returned, the lines handed to
\* _process_command are the lines of the received text whose newline has
\* arrived, in that order; once the buffer holds no newline all of them have
\* been handed over and the buffer is the text after the last newline, which
\* is not executed; and the Sink calls of the connection are those of the
\* accepted CLICK and KEY lines among them, in the same order.
C17_TcpOrder ==
    LET all == CompleteLines(tcp_stream.received)
        done == tcp_stream.processed
    IN  /\ Len(done) <= Len(all)
        /\ \A i \in 1..Len(done) : done[i].line = all[i]
        /\ find(tcp_stream.buffer, "\n") = 0 =>
                /\ Len(done) = Len(all)
                /\ tcp_stream.buffer = AfterLastNewline(tcp_stream.received)
        /\ tcp_stream.calls = ExpectedCalls(done)

\* the whole text has arrived: the key event and the click of the two lines
\* after AUTH were forwarded in that order, the CLICK without a newline waits
\* in the buffer
C17_Witness ==
    /\ tcp_stream.sent
    /\ tcp_stream.wire = <<>>
    /\ find(tcp_stream.buffer, "\n") = 0
    /\ tcp_stream.calls = <<<<"key_event", "KEY_A", "UP">>, <<"click", "LEFT", "UP">>>>
    /\ ClickLine(tokens(tcp_stream.buffer))
    /\ Len(tcp_stream.processed) = 3

\* C18: a connection is accepted only while no handler is running, a handler
\* ends only by its own exit, whose disconnect callback is complete when the
\* next accept becomes possible, and nothing else starts or ends a handler:
\* the handlers run one after the other.
C18_SerialHandling ==
    /\ [][last'.op = "accept" => handler = NoHost /\ handler' # NoHost]_vars
    /\ [][last'.op = "handler_exit" =>
            /\ handler # NoHost /\ handler' = NoHost
            /\ ~connection_manager'.connected
            /\ ~auth_manager'.authenticated
            /\ ~tcp_authenticated'
            /\ backlog' = backlog]_vars
    /\ [][handler' # handler => last'.op \in {"accept", "handler_exit"}]_vars
    /\ [][Len(backlog') < Len(backlog) => last'.op = "accept"]_vars

\* a peer waited in the listen queue while the handler ran and still waits
\* when the handler, that served a session, has finished
C18_Witness ==
    /\ last.op = "handler_exit"
    /\ last.mark
    /\ handler = NoHost
    /\ backlog # <<>>

\* a datagram as C19 describes the accepted ones
WellFormed(parts, verb) ==
    /\ Len(parts) = 3
    /\ parts[2] \in IntLiterals
    /\ parts[3] \in IntLiterals
    /\ upper(parts[1]) = verb

\* C19: a datagram from the authorized address is handed to add_movement, with
\* its two integers, exactly when it has three tokens, the second and third
\* are integers and the first is MOVE in any case, and to add_scroll exactly
\* when the same holds with SCROLL; every other datagram changes nothing and
\* leaves the listener running; and the smoothers are charged by these calls
\* only.
C19_UdpDispatch ==
    /\ [][last'.op = "udp_recv" => \A h \in Hosts, parts \in Datagrams :
            (UdpRecv(h, parts) /\ is_authorized_client(connection_manager, h)) =>
                IF WellFormed(parts, "MOVE") \/ WellFormed(parts, "SCROLL")
                THEN /\ last'.mark
                     /\ udp_pending' = <<upper(parts[1]), int(parts[2]), int(parts[3])>>
                ELSE /\ ~last'.mark
                     /\ udp_pending' = <<>>
                     /\ udp_running'
                     /\ UNCHANGED <<gate_vars, server_vars>>]_vars
    /\ [][last'.op = "udp_dispatch" =>
            /\ udp_pending[1] = "MOVE" =>
                    /\ last'.call = <<"add_movement", udp_pending[2], udp_pending[3]>>
                    /\ charged'.x = charged.x + udp_pending[2]
                    /\ charged'.y = charged.y + udp_pending[3]
                    /\ UNCHANGED scroll_smoother
            /\ udp_pending[1] = "SCROLL" =>
                    /\ last'.call = <<"add_scroll", udp_pending[2], udp_pending[3]>>
                    /\ scroll_smoother'.charge_v = scroll_smoother.charge_v + udp_pending[2]
                    /\ scroll_smoother'.charge_h = scroll_smoother.charge_h + udp_pending[3]
                    /\ UNCHANGED <<input_smoother, charged>>
            /\ udp_pending[1] \in {"MOVE", "SCROLL"}
            /\ udp_pending' = <<>>]_vars
    /\ [][<<input_smoother, scroll_smoother, charged>>'
                # <<input_smoother, scroll_smoother, charged>>
            => last'.op = "udp_dispatch"]_vars

\* a lower-case move datagram has charged the pointer smoother
C19_Witness ==
    /\ last.op = "udp_dispatch"
    /\ last.call = <<"add_movement", 1, 0>>
    /\ charged.x = 1
    /\ input_smoother.is_active

(***************************************************************************)
(* C21: the pointer smoother after its input has stopped.                  *)
(***************************************************************************)
\* the frame clock of the last frame run read more than continuation_timeout
\* plus one frame period after the last add_movement
C21_LongIdle ==
    /\ charged.calls > 0
    /\ last.op = "frame"
    /\ 10 * (frame - 1 - input_smoother.last_input_time) >
            input_smoother.continuation_timeout + 10

\* C21 (as claimed): after no add_movement for longer than
\* continuation_timeout plus one frame, charge, velocity, speed and subpixel
\* are zero, active is false and the frame made no Sink.move call.
C21_IdleAfterTimeout ==
    C21_LongIdle =>
        /\ input_smoother.charge_x = 0 /\ input_smoother.charge_y = 0
        /\ input_smoother.velocity_x = 0 /\ input_smoother.velocity_y = 0
        /\ input_smoother.speed = 0
        /\ input_smoother.subpixel_x = 0 /\ input_smoother.subpixel_y = 0
        /\ ~input_smoother.is_active
        /\ last.call = <<>>

\* C21 (amended): a frame that starts with zero charge at least
\* continuation_timeout after the last add_movement ends with zero charge,
\* velocity and speed, active false and each subpixel component of magnitude
\* below one, and makes no Sink.move call.
C21_IdleOnceDischarged ==
    [][(/\ frame' = frame + 1
        /\ charged.calls > 0
        /\ input_smoother.charge_x = 0 /\ input_smoother.charge_y = 0
        /\ 10 * (frame - input_smoother.last_input_time) >=
                input_smoother.continuation_timeout)
       => /\ input_smoother'.charge_x = 0 /\ input_smoother'.charge_y = 0
          /\ input_smoother'.velocity_x = 0 /\ input_smoother'.velocity_y = 0
          /\ input_smoother'.speed = 0
          /\ ~input_smoother'.is_active
          /\ Abs(input_smoother'.subpixel_x) < Unit
          /\ Abs(input_smoother'.subpixel_y) < Unit
          /\ input_smoother'.subpixel_x = input_smoother.subpixel_x
          /\ input_smoother'.subpixel_y = input_smoother.subpixel_y
          /\ last'.call = <<>>]_vars

\* the frame after the charge of a move has run out resets the smoother, the
\* fraction of a pixel staying in subpixel
C21_Witness ==
    /\ C21_LongIdle
    /\ last.call = <<>>
    /\ input_smoother.charge_x = 0 /\ input_smoother.charge_y = 0
    /\ ~input_smoother.is_active
    /\ input_smoother.speed = 0
    /\ input_smoother.subpixel_x # 0
    /\ sink.x # 0

(***************************************************************************)
(* C22: one MOVE 100 0 on a fresh smoother with the default parameters.    *)
(***************************************************************************)
\* the scenario: fps 60, base rate 0.22, a single add_movement(100, 0)
C22_Scenario ==
    /\ input_smoother.discharge_rate = DEFAULT_DISCHARGE_RATE
    /\ charged = [x |-> 100, y |-> 0, calls |-> 1]

\* C22: a single add_movement(100, 0) on a fresh smoother at base rate 0.22
\* is passed to Sink.move as dx adding up to 100 within 1 and dy 0 once it is
\* discharged; the first discharge frame uses the rate 0.27 and emits 27, and
\* no frame emits all 100, so that the move is spread over several frames.
C22_SpreadOverFrames ==
    C22_Scenario =>
        /\ sink.y = 0
        /\ Quiescent => Abs(sink.x - 100) <= 1
        /\ last.op = "frame" /\ frame = input_smoother.last_input_time + 1 =>
                /\ last.call = <<"move", 27, 0>>
                /\ input_smoother.charge_x = 100 * Unit - 270 * 100
                /\ sink.x = 27
        /\ last.op = "frame" /\ last.call # <<>> =>
                /\ last.call[2] < 100
                /\ last.call[3] = 0

\* the move has been passed on in full and the smoother has gone idle
C22_Witness ==
    /\ C22_Scenario
    /\ Quiescent
    /\ last.op = "frame"
    /\ sink = [x |-> 100, y |-> 0]
    /\ input_smoother.subpixel_x = 0

(***************************************************************************)
(* C23: MOVE 50 0 followed two frame periods later by MOVE -50 0.          *)
(***************************************************************************)
\* the scenario, from the second add_movement on
C23_Scenario == charged = [x |-> 0, y |-> 0, calls |-> 2]

\* C23: after add_movement(50, 0) and, two frames later, add_movement(-50, 0)
\* the dx passed to Sink.move add up to 0 within 1 once the smoother is
\* discharged, and from the frame that empties the charge on no Sink.move
\* carries a positive dx, the stored direction pointing to negative x.
C23_QuickTurn ==
    C23_Scenario =>
        /\ sink.y = 0
        /\ input_smoother.direction_x < 0
        /\ Quiescent => Abs(sink.x) <= 1
        /\ (/\ last.op = "frame"
            /\ last.call # <<>>
            /\ input_smoother.charge_x = 0) => last.call[2] <= 0

\* the reversal has been discharged and the smoother has gone idle, the
\* pixels passed on before the reversal having been taken back
C23_Witness ==
    /\ C23_Scenario
    /\ Quiescent
    /\ last.op = "frame"
    /\ sink = [x |-> 0, y |-> 0]
    /\ input_smoother.last_input_time > 2

(***************************************************************************)
(* C24: the sub-pixel accumulator.                                         *)
(***************************************************************************)
\* C24: at the end of every discharge frame each component of subpixel is
\* the fraction int() left behind: at least -1 and less than 1.
C24_SubpixelFraction ==
    last.op = "frame" =>
        /\ -Unit <= input_smoother.subpixel_x /\ input_smoother.subpixel_x < Unit
        /\ -Unit <= input_smoother.subpixel_y /\ input_smoother.subpixel_y < Unit

\* a frame has passed whole pixels on and kept a fraction on both axes, one
\* of them negative
C24_Witness ==
    /\ last.op = "frame"
    /\ last.call # <<>>
    /\ input_smoother.subpixel_x > 0
    /\ input_smoother.subpixel_y < 0

(***************************************************************************)
(* C25: the active flag and the continuation window.                       *)
(***************************************************************************)
\* an add_movement arrived less than continuation_timeout before the clock
\* reading of the last frame run
C25_Recent ==
    /\ charged.calls > 0
    /\ 10 * (frame - 1 - input_smoother.last_input_time) <
            input_smoother.continuation_timeout

\* C25 (as claimed): between frames, active is true if and only if an
\* add_movement arrived within the last continuation_timeout.
C25_ActiveIffRecent == input_smoother.is_active <=> C25_Recent

\* C25 (amended): between frames, active is true whenever an add_movement
\* arrived within the last continuation_timeout and false only when the
\* charge is zero; after the window it stays true as long as a frame starts
\* with charge left, and the first frame that starts with zero charge clears
\* it.
C25_ActiveUntilDischarged ==
    [][/\ C25_Recent' => input_smoother'.is_active
       /\ ~input_smoother'.is_active =>
            input_smoother'.charge_x = 0 /\ input_smoother'.charge_y = 0
       /\ (frame' = frame + 1 /\ input_smoother.is_active) =>
            (input_smoother'.is_active <=>
                \/ input_smoother.charge_x # 0
                \/ input_smoother.charge_y # 0
                \/ 10 * (frame - input_smoother.last_input_time) <
                        input_smoother.continuation_timeout)]_vars

\* the window has passed, charge is left and the flag is still up
C25_Witness ==
    /\ last.op = "frame"
    /\ charged.calls > 0
    /\ ~C25_Recent
    /\ input_smoother.is_active
    /\ input_smoother.charge_x # 0

(***************************************************************************)
(* C30: the quick-turn reset.                                              *)
(***************************************************************************)
\* 0.6 * (d / f), f being the frame periods since the previous call
C30_Blend(d, f) == TDiv(TDiv(d * Unit, f) * 6, 10)

\* C30 (as claimed): an add_movement(dx, dy) with dx * vx + dy * vy < 0
\* leaves the velocity 0.6 * (dx / f, dy / f), and the direction and speed it
\* leaves for the continuation frames do not point opposite to (dx, dy).
C30_NoStaleMomentum ==
    [][\A m \in PointerMoves :
        (/\ last'.op = "add_movement"
         /\ last'.call = <<"add_movement", m[1], m[2]>>
         /\ m[1] * input_smoother.velocity_x + m[2] * input_smoother.velocity_y < 0)
        => LET f == Max(frame - input_smoother.last_input_time, 1) IN
           /\ input_smoother'.velocity_x = C30_Blend(m[1], f)
           /\ input_smoother'.velocity_y = C30_Blend(m[2], f)
           /\ \/ input_smoother'.speed = 0
              \/ m[1] * input_smoother'.direction_x +
                 m[2] * input_smoother'.direction_y >= 0]_vars

\* the velocity part alone: a reversing add_movement leaves the velocity
\* 0.6 * (dx / f, dy / f)
C30_VelocityReset ==
    [][\A m \in PointerMoves :
        (/\ last'.op = "add_movement"
         /\ last'.call = <<"add_movement", m[1], m[2]>>
         /\ m[1] * input_smoother.velocity_x + m[2] * input_smoother.velocity_y < 0)
        => LET f == Max(frame - input_smoother.last_input_time, 1) IN
           /\ input_smoother'.velocity_x = C30_Blend(m[1], f)
           /\ input_smoother'.velocity_y = C30_Blend(m[2], f)]_vars

\* a continuation frame has passed on pixels to the right after the latest
\* input, a reversal, pointed to the left
C30_StaleOutput ==
    /\ charged.calls = 2
    /\ last.op = "frame"
    /\ last.call # <<>>
    /\ last.call[2] > 0
    /\ input_smoother.velocity_x < 0
    /\ input_smoother.direction_x > 0
    /\ input_smoother.charge_x = 0
    /\ input_smoother.subpixel_x >= 0

(***************************************************************************)
(* C26: the smoother's mutex.                                              *)
(***************************************************************************)
\* the events of the pointer discharge thread in the mouse fd, in order
C26_MoveEvents == SelectSeq(threads.mouse, LAMBDA e : e[1] = "pointer")

\* C26: add_movement and a discharge frame exclude each other under the
\* smoother's lock: a frame is computed only when no add_movement is half
\* applied, and add_movement starts only when no frame is in progress;
\* every event of Sink.move is written by the discharge thread while it
\* holds the lock, and a Sink.move starts only after the one before it has
\* written its SYN_REPORT or failed.
C26_SerialDischarge ==
    [][/\ ~(threads'.at["udp"] = "add_movement" /\ threads'.at["pointer"] = "write")
       /\ threads'.at["udp"] = "add_movement" => threads'.lock = "udp"
       /\ threads'.at["pointer"] = "write" => threads'.lock = "pointer"
       /\ frame' = frame + 1 =>
            /\ threads.at["udp"] = "loop"
            /\ threads.lock = NoThread
            /\ threads.todo["pointer"] = <<>>
       /\ last'.op = "add_movement_enter" =>
            /\ threads.at["pointer"] = "loop"
            /\ threads.lock = NoThread
       /\ (last'.op = "write" /\ last'.call[3] \in {"REL_X", "REL_Y"}) =>
            /\ last'.call[1] = "pointer"
            /\ threads.lock = "pointer"
       /\ (last'.op = "write" /\ last'.call[1] = "pointer") =>
            threads.lock = "pointer"
       /\ threads'.failures = 0 =>
            \A i \in 1..Len(C26_MoveEvents') :
                (C26_MoveEvents'[i][2] = "REL_X" /\ i > 1)
                    => C26_MoveEvents'[i - 1][2] = "SYN_REPORT"]_vars

\* the discharge thread is inside Sink.move, REL_X written and REL_Y not
\* yet, while the UDP loop has another add_movement to make
C26_Witness ==
    /\ threads.at["pointer"] = "write"
    /\ threads.lock = "pointer"
    /\ Len(threads.todo["pointer"]) = 2
    /\ threads.at["udp"] = "loop"
    /\ charged.calls = 1
    /\ frame <= LastInputFrame

(***************************************************************************)
(* C27: the writers of the mouse fd.                                       *)
(***************************************************************************)
\* C27 (as claimed): the events move, scroll and click write to the mouse fd
\* form contiguous groups: as long as no write fails, the event that follows
\* an event other than SYN_REPORT comes from the same thread, so that every
\* group is closed by its own SYN_REPORT before another operation writes.
C27_GroupsContiguous ==
    threads.failures = 0 =>
        \A i \in 1..(Len(threads.mouse) - 1) :
            threads.mouse[i][2] # "SYN_REPORT"
                => threads.mouse[i + 1][1] = threads.mouse[i][1]

\* the button event of a click stands between REL_X and REL_Y of a move
C27_ClickInsideMove ==
    /\ threads.failures = 0
    /\ Len(threads.mouse) >= 3
    /\ threads.mouse[1][1] = "pointer" /\ threads.mouse[1][2] = "REL_X"
    /\ threads.mouse[2][1] = "tcp" /\ threads.mouse[2][2] = "LEFT"
    /\ threads.mouse[3][1] = "pointer" /\ threads.mouse[3][2] = "REL_Y"

(***************************************************************************)
(* C29: a failing write to a uinput fd.                                    *)
(***************************************************************************)
\* C29: when os.write fails inside move, scroll, click or key_event, nothing
\* of that event reaches the fd and the rest of the call is given up, not
\* retried; the smoother keeps the charge as the frame left it; no device
\* is closed; and the calling thread is back at the top of its loop, the
\* discharge thread having released the smoother's lock.
C29_WriteFailureContained ==
    [][(last'.op = "write" /\ ~last'.ret) =>
        LET t == last'.call[1] IN
        /\ threads'.mouse = threads.mouse
        /\ threads'.keyboard = threads.keyboard
        /\ threads'.todo[t] = <<>>
        /\ input_smoother' = input_smoother
        /\ sink' = sink
        /\ \A fd \in DOMAIN threads'.closed : ~threads'.closed[fd]
        /\ threads'.at[t] = "loop"
        /\ t = "pointer" => threads'.lock = NoThread
        /\ \A u \in Writers \ {t} :
                threads'.at[u] = threads.at[u] /\ threads'.todo[u] = threads.todo[u]]_vars

\* the first Sink.move of the discharge thread failed at its first write,
\* the second one, a frame later, has just written its SYN_REPORT
C29_Witness ==
    /\ threads.failures = 1
    /\ sink = [x |-> 2, y |-> 2]
    /\ SelectSeq(threads.mouse, LAMBDA e : e[1] = "pointer") =
            <<<<"pointer", "REL_X", 1>>, <<"pointer", "REL_Y", 1>>,
              <<"pointer", "SYN_REPORT", 0>>>>
    /\ last.op = "write" /\ last.ret
    /\ last.call = <<"pointer", "mouse", "SYN_REPORT", 0>>
    /\ threads.at["pointer"] = "loop"

(***************************************************************************)
(* C28: stop() ends every loop.                                            *)
(***************************************************************************)
\* stop() has begun
C28_Stopping == phase \notin {"new", "running"}

\* the running flag of the component whose loop thread t runs
C28_Running(t) ==
    IF t = "accept" THEN tcp_running
    ELSE IF t = "udp" THEN udp_running
    ELSE IF t = "discovery" THEN discovery_running
    ELSE threads.running[t]

\* C28: once stop() has cleared the running flag of a loop, that loop
\* eventually leaves, wherever it stood (in recvfrom, accept or recv, in the
\* join on the handler thread, or in the sleep between frames), the handler
\* thread ends, and every socket ends up closed.
C28_LoopsExit ==
    /\ \A t \in Loops :
            (C28_Stopping /\ ~C28_Running(t)) ~> (threads.at[t] = "exited")
    /\ (C28_Stopping /\ ~tcp_running) ~> (handler = NoHost)
    /\ C28_Stopping ~> (threads.open = {})
    /\ C28_Stopping ~> (phase = "stopped")

\* stop() has cleared the TCP listener's flag while the accept loop waits in
\* join() and the handler thread waits in recv; the other loops wait in
\* their receive or sleep with their flags still up
C28_Witness ==
    /\ phase = "stopping"
    /\ ~tcp_running
    /\ threads.at["accept"] = "join"
    /\ handler # NoHost
    /\ threads.at["tcp"] = "blocked"
    /\ \A t \in Loops \ {"accept"} : threads.at[t] = "blocked" /\ C28_Running(t)

\* stop() has returned and every loop has left
C28_AllExited ==
    /\ phase = "stopped"
    /\ \A t \in Loops : threads.at[t] = "exited"
    /\ handler = NoHost
    /\ threads.open = {}

(***************************************************************************)
(* C31: the three states of a pointer discharge frame.                     *)
(***************************************************************************)
\* what a frame adds to the sub-pixel accumulator on each axis: the whole
\* pixels it hands to Sink.move and the change of the fraction it keeps
C31_OutX ==
    (sink'.x - sink.x) * Unit + input_smoother'.subpixel_x - input_smoother.subpixel_x

C31_OutY ==
    (sink'.y - sink.y) * Unit + input_smoother'.subpixel_y - input_smoother.subpixel_y

\* the fields a frame in state 3 clears are those of before the frame
C31_NoReset ==
    /\ input_smoother'.is_active = input_smoother.is_active
    /\ input_smoother'.speed = input_smoother.speed
    /\ input_smoother'.velocity_x = input_smoother.velocity_x
    /\ input_smoother'.velocity_y = input_smoother.velocity_y

\* C31: a frame discharges whenever either charge axis is non-zero, whatever
\* the input age and the active flag: its output is exactly the charge it
\* removes (no momentum is added) and nothing is reset.  With zero charge it
\* continues iff active and the input age is below continuation_timeout: the
\* output points along the stored direction and nothing is reset.  With zero
\* charge, active and the timeout reached it clears active, speed and
\* velocity and puts nothing out.  Otherwise it changes nothing.
C31_BranchPriority ==
    [][frame' = frame + 1 =>
        LET sm == input_smoother
            since == 10 * (frame - sm.last_input_time)
            charge == sm.charge_x # 0 \/ sm.charge_y # 0
        IN  /\ charge =>
                /\ C31_OutX = sm.charge_x - input_smoother'.charge_x
                /\ C31_OutY = sm.charge_y - input_smoother'.charge_y
                /\ <<C31_OutX, C31_OutY>> # <<0, 0>>
                /\ C31_NoReset
            /\ (~charge /\ sm.is_active /\ since < sm.continuation_timeout) =>
                /\ input_smoother'.charge_x = 0 /\ input_smoother'.charge_y = 0
                /\ C31_OutX * sm.direction_x >= 0 /\ C31_OutY * sm.direction_y >= 0
                /\ sm.direction_x = 0 => C31_OutX = 0
                /\ sm.direction_y = 0 => C31_OutY = 0
                /\ C31_NoReset
            /\ (~charge /\ sm.is_active /\ since >= sm.continuation_timeout) =>
                /\ input_smoother'.charge_x = 0 /\ input_smoother'.charge_y = 0
                /\ <<C31_OutX, C31_OutY>> = <<0, 0>>
                /\ ~input_smoother'.is_active
                /\ input_smoother'.speed = 0
                /\ input_smoother'.velocity_x = 0 /\ input_smoother'.velocity_y = 0
            /\ (~charge /\ ~sm.is_active) =>
                /\ input_smoother' = sm
                /\ sink' = sink]_vars

\* a frame of state 2 has run: the charge is gone, the smoother is still
\* active within the timeout and the Sink has received more than was charged
C31_Witness ==
    /\ last.op = "frame"
    /\ last.call # <<>>
    /\ input_smoother.charge_x = 0 /\ input_smoother.charge_y = 0
    /\ input_smoother.is_active
    /\ 10 * (frame - 1 - input_smoother.last_input_time) <
            input_smoother.continuation_timeout
    /\ charged.x > 0
    /\ sink.x > charged.x

(***************************************************************************)
(* C32: the sub-pixel carry loses nothing.                                 *)
(***************************************************************************)
\* the output a frame computes on each axis, before the sub-pixel stage: the
\* released charge in state 1, the continuation along the stored direction
\* in state 2, nothing otherwise
C32_Out ==
    LET sm == input_smoother
        since == 10 * (frame - sm.last_input_time)
        push == continuation(sm, since)
    IN  CASE branch(sm, since) = "discharge" ->
                <<release(sm.charge_x, adaptive_rate(sm)),
                  release(sm.charge_y, adaptive_rate(sm))>>
          [] branch(sm, since) = "continuation" ->
                <<TDiv(sm.direction_x * push, Unit), TDiv(sm.direction_y * push, Unit)>>
          [] OTHER -> <<0, 0>>

\* C32: every frame adds its output, on each axis, to the sum of the integers
\* passed to Sink.move and the sub-pixel carry, so that this sum stays equal
\* to the sum of all outputs computed so far (both are zero at the start);
\* and the frame calls Sink.move with a non-zero integer on an axis exactly
\* when the carry and the output together reach one pixel, however small the
\* output of the frame is.
C32_CarryLosesNothing ==
    [][frame' = frame + 1 =>
        /\ sink'.x * Unit + input_smoother'.subpixel_x =
                sink.x * Unit + input_smoother.subpixel_x + C32_Out[1]
        /\ sink'.y * Unit + input_smoother'.subpixel_y =
                sink.y * Unit + input_smoother.subpixel_y + C32_Out[2]
        /\ sink'.x # sink.x <=> Abs(input_smoother.subpixel_x + C32_Out[1]) >= Unit
        /\ sink'.y # sink.y <=> Abs(input_smoother.subpixel_y + C32_Out[2]) >= Unit
        /\ last'.call # <<>> <=> sink' # sink]_vars

\* a frame whose own output was below one pixel has moved the pointer by one
\* pixel: the charge left is below 2, so at most 0.27 / 0.73 of it was
\* released, and the rest of the pixel came out of the carry
C32_Witness ==
    /\ last.op = "frame"
    /\ last.call = <<"move", 1, 0>>
    /\ input_smoother.charge_x > 0
    /\ input_smoother.charge_x < 2 * Unit
    /\ input_smoother.charge_y = 0
    /\ input_smoother.subpixel_x > 0

(***************************************************************************)
(* C39: the charge of the pointer smoother drains.                         *)
(***************************************************************************)
\* one axis over one frame: the charge keeps its sign and shrinks by at
\* least the smallest rate, 0.12 of it, and what would be left below 0.02 is
\* released too, which leaves exactly zero
C39_Drains(before, after) ==
    /\ before * after >= 0
    /\ before = 0 => after = 0
    /\ before # 0 =>
        /\ Abs(after) < Abs(before)
        /\ Abs(before) - Abs(after) >= TDiv(Abs(before) * 120, 1000)
        /\ after = 0 \/ Abs(after) >= (2 * Unit) \div 100

\* C39: in a frame (a step without add_movement) the charge on each axis
\* never changes sign and never grows; while it is not zero it loses at
\* least 0.12 of its magnitude per frame and never stays below 0.02 without
\* becoming exactly zero, so it is zero after finitely many frames.
C39_ChargeDrains ==
    [][frame' = frame + 1 =>
        /\ C39_Drains(input_smoother.charge_x, input_smoother'.charge_x)
        /\ C39_Drains(input_smoother.charge_y, input_smoother'.charge_y)]_vars

\* the charge of the two moves <<3, 4>> and <<0, -2>> has drained to zero on
\* both axes, the vertical one through its change of sign at the second call
C39_Witness ==
    /\ last.op = "frame"
    /\ charged = [x |-> 3, y |-> 2, calls |-> 2]
    /\ input_smoother.charge_x = 0
    /\ input_smoother.charge_y = 0
    /\ sink.x >= 2

(***************************************************************************)
(* C35: the listener's authenticated flag and the session.                 *)
(***************************************************************************)
\* C35 (as claimed): whenever the TCP listener's authenticated flag is true
\* the Session Gate is Connected and its recorded peer is the peer of the
\* client handler that is running.
C35_FlagImpliesSession ==
    tcp_authenticated =>
        /\ handler # NoHost
        /\ connection_manager.connected
        /\ connection_manager.active_client_ip = handler

\* the same until stop() has called connection_manager.disconnect(): holds
C35_UntilStopped ==
    phase # "stopped" => C35_FlagImpliesSession

\* stop() has disconnected the session while the handler thread, which the
\* join with its timeout did not wait for, still has its flag set
C35_StaleFlag ==
    ~(/\ phase = "stopped"
      /\ handler # NoHost
      /\ tcp_authenticated
      /\ ~connection_manager.connected)

(***************************************************************************)
(* C36: every closed control connection replaces the pairing code.         *)
(***************************************************************************)
\* C36: a handler ends only through its finally block, whether or not its
\* connection ever authenticated, and the disconnect callback that block
\* calls leaves the Auth Gate with a code drawn at that moment, its window
\* starting now and authenticated cleared; of all codes only the new one is
\* accepted afterwards, so the code in force before is refused unless the
\* new one is equal to it.
C36_CloseReplacesCode ==
    /\ [][(handler # NoHost /\ handler' # handler) => last'.op = "handler_exit"]_vars
    /\ [][last'.op = "handler_exit" =>
            /\ handler' = NoHost
            /\ ~tcp_authenticated'
            /\ ~connection_manager'.connected
            /\ auth_manager'.code \in Codes
            /\ auth_manager'.generated_at = now
            /\ ~auth_manager'.authenticated
            /\ \A c \in Codes \cup NonCodes :
                    validate_code(auth_manager', c, now).ret <=> c = auth_manager'.code
            /\ (auth_manager.code # auth_manager'.code) =>
                    ~validate_code(auth_manager', auth_manager.code, now).ret]_vars

\* a connection that never authenticated has closed, and the code another
\* peer read when it connected is not the one in force any more
C36_Witness ==
    /\ last.op = "handler_exit"
    /\ ~last.mark
    /\ ~validated_once
    /\ \E g \in Hosts : known[g] # NoCode /\ known[g] # auth_manager.code

(***************************************************************************)
(* C37: a further AUTH line on the authenticated connection.               *)
(***************************************************************************)
\* the running handler's connection is authenticated: its flag is set and
\* the session is that of its peer
C37_Authenticated ==
    /\ handler # NoHost
    /\ tcp_authenticated
    /\ is_authorized_client(connection_manager, handler)

\* C37: an AUTH line on the authenticated connection is answered
\* AUTH_FAIL:ALREADY_CONNECTED when it carries the stored code within its
\* window and AUTH_FAIL:INVALID_CODE otherwise; either way the session
\* (peer, channel, connected) and the connection's flag stay as they were,
\* so a CLICK or KEY line is still forwarded afterwards.  The answer is
\* written to the socket as long as the listener holds it.
C37_RepeatedAuth ==
    [][(last'.op = "auth" /\ C37_Authenticated) =>
        /\ \A parts \in Lines :
            (Len(parts) >= 2 /\ ProcessLine(parts)) =>
                LET still_valid ==
                        /\ auth_manager.code # NoCode
                        /\ now - auth_manager.generated_at <= AuthTimeout
                        /\ strip(parts[2]) = auth_manager.code
                IN  /\ last'.ret = still_valid
                    /\ last'.reply = IF still_valid THEN "AUTH_FAIL:ALREADY_CONNECTED"
                                     ELSE "AUTH_FAIL:INVALID_CODE"
        /\ tcp_client_socket # NoSock => last'.sent = last'.reply
        /\ connection_manager' = connection_manager
        /\ tcp_authenticated'
        /\ process_command(tcp_authenticated', <<"CLICK", "left", "DOWN">>) = "click"
        /\ process_command(tcp_authenticated', <<"KEY", "DOWN", "KEY_A">>) = "key"]_vars

\* the authenticated connection has sent the stored code once more and got
\* AUTH_FAIL:ALREADY_CONNECTED, its session standing
C37_Witness ==
    /\ last.op = "auth"
    /\ last.reply = "AUTH_FAIL:ALREADY_CONNECTED"
    /\ C37_Authenticated

(***************************************************************************)
(* C38: the session outlives the pairing code.                             *)
(***************************************************************************)
\* a peer is connected over the running handler's connection
C38_Established ==
    /\ handler # NoHost
    /\ tcp_authenticated
    /\ connection_manager.connected
    /\ connection_manager.active_client_ip = handler

\* C38: while a peer is connected, no step but the end of its handler and
\* stop() touches the session or the flag: not the passing of time beyond the
\* code's window, and not an AUTH line whose validate_code call clears the
\* expired code.  The peer stays authorized for UDP input throughout.
C38_SessionOutlivesCode ==
    [][(C38_Established /\ last'.op \notin {"handler_exit", "stop"}) =>
        /\ connection_manager' = connection_manager
        /\ tcp_authenticated'
        /\ handler' = handler
        /\ is_authorized_client(connection_manager', handler)
        /\ \A h \in Hosts \ {handler} : ~is_authorized_client(connection_manager', h)]_vars

\* the session stands after the window has passed and an AUTH line has made
\* validate_code clear the expired code
C38_Witness ==
    /\ C38_Established
    /\ last.op = "auth"
    /\ last.reply = "AUTH_FAIL:INVALID_CODE"
    /\ auth_manager.code = NoCode
    /\ auth_manager.generated_at = NoTime
    /\ is_authorized_client(connection_manager, handler)

(***************************************************************************)
(* C34: a socket error in one receiver.                                    *)
(***************************************************************************)
\* C34: a socket error while the server is running ends the loop of the
\* receiver it hits and changes nothing else: the position of every other
\* thread, the Session Gate, the Auth Gate, the listeners' flags and
\* sockets and the smoothers are as before, so every other thread goes on
\* as if nothing had happened.  The receiver that left its loop serves
\* nothing any more, and the server stays in its running phase with all
\* three _running flags set.
C34_ErrorContained ==
    /\ [][last'.op = "socket_error" =>
            /\ \E t \in Receivers :
                /\ last'.call = <<t>>
                /\ threads.at[t] = "loop"
                /\ threads'.at[t] = "exited"
                /\ \A u \in Threads \ {t} : threads'.at[u] = threads.at[u]
            /\ [threads' EXCEPT !.at = threads.at] = threads
            /\ UNCHANGED <<gate_vars, phase, tcp_vars, tcp_stream, udp_vars,
                           discovery_vars, smoother_vars, client_vars>>]_vars
    /\ [][/\ last'.op = "accept" => threads.at["accept"] = "loop"
          /\ last'.op = "udp_recv" => threads.at["udp"] = "loop"
          /\ last'.op = "discovery" => threads.at["discovery"] = "loop"]_vars
    /\ [](phase = "running" => tcp_running /\ udp_running /\ discovery_running)

\* both datagram receivers have left their loops on a socket error, and the
\* handler thread has just forwarded a CLICK of the authenticated peer
C34_Witness ==
    /\ threads.at["udp"] = "exited"
    /\ threads.at["discovery"] = "exited"
    /\ threads.at["accept"] = "loop"
    /\ phase = "running"
    /\ connection_manager.connected
    /\ last.op = "line"
    /\ last.call # <<>>

(***************************************************************************)
(* C33: the momentum phase of the scroll smoother.                         *)
(***************************************************************************)
\* the integers a scroll frame hands to Sink.scroll, <<0, 0>> when it makes
\* no call
C33_Ticks ==
    IF last'.call = <<>> THEN <<0, 0>> ELSE <<last'.call[2], last'.call[3]>>

\* what the frame adds to the sub-notch accumulator on each axis
C33_OutV ==
    C33_Ticks[1] * Unit + scroll_smoother'.subpixel_v - scroll_smoother.subpixel_v

C33_OutH ==
    C33_Ticks[2] * Unit + scroll_smoother'.subpixel_h - scroll_smoother.subpixel_h

\* C33: a frame with zero charge, active set and an input age below 0.8 s
\* multiplies the velocity by momentum_decay and puts the decayed velocity
\* out; it clears active exactly when both decayed components are below 0.2
\* in magnitude.  A frame with zero charge and active false, or with an
\* input age of 0.8 s or more, puts nothing out, makes no Sink.scroll call
\* and leaves the smoother as it was.
C33_MomentumPhase ==
    [][frame' = frame + 1 =>
        LET sm == scroll_smoother
            since == frame - sm.last_input_time
            zero == sm.charge_v = 0 /\ sm.charge_h = 0
        IN  /\ (zero /\ sm.is_active /\ since < MOMENTUM_FRAMES) =>
                /\ scroll_smoother'.velocity_v = TDiv(sm.velocity_v * sm.momentum_decay, 1000)
                /\ scroll_smoother'.velocity_h = TDiv(sm.velocity_h * sm.momentum_decay, 1000)
                /\ C33_OutV = scroll_smoother'.velocity_v
                /\ C33_OutH = scroll_smoother'.velocity_h
                /\ scroll_smoother'.is_active <=>
                        ~(/\ Abs(scroll_smoother'.velocity_v) < (2 * Unit) \div 10
                          /\ Abs(scroll_smoother'.velocity_h) < (2 * Unit) \div 10)
                /\ scroll_smoother'.charge_v = 0 /\ scroll_smoother'.charge_h = 0
            /\ (zero /\ (~sm.is_active \/ since >= MOMENTUM_FRAMES)) =>
                /\ <<C33_OutV, C33_OutH>> = <<0, 0>>
                /\ last'.call = <<>>
                /\ scroll_smoother' = sm]_vars

\* the frame that ends the momentum phase: within 0.8 s of the last
\* add_scroll the decayed velocity has fallen below 0.2 and active is cleared
C33_Witness ==
    /\ last.op = "scroll_frame"
    /\ charged.calls > 0
    /\ scroll_smoother.charge_v = 0 /\ scroll_smoother.charge_h = 0
    /\ ~scroll_smoother.is_active
    /\ scroll_smoother.velocity_v > (2 * Unit * scroll_smoother.momentum_decay) \div 10000
    /\ scroll_smoother.velocity_v < (2 * Unit) \div 10
    /\ scroll_smoother.velocity_h = 0
    /\ frame - 1 - scroll_smoother.last_input_time < MOMENTUM_FRAMES

(***************************************************************************)
(* C40: the scroll smoother after the add_scroll calls have ceased.        *)
(***************************************************************************)
\* the momentum window of the last add_scroll is over: from here on a frame
\* with zero charge takes no branch, so what the smoother holds now it holds
\* until the next add_scroll
C40_Ceased ==
    /\ charged.calls > 0
    /\ frame - scroll_smoother.last_input_time >= MOMENTUM_FRAMES

\* C40: once the add_scroll calls have ceased the scroll smoother is
\* quiescent: its charge is zero, its active flag is cleared, and it holds
\* no velocity of the finished gesture for the next add_scroll to blend in.
C40_Quiescent ==
    C40_Ceased =>
        /\ scroll_smoother.charge_v = 0 /\ scroll_smoother.charge_h = 0
        /\ ~scroll_smoother.is_active
        /\ scroll_smoother.velocity_v = 0 /\ scroll_smoother.velocity_h = 0

\* the part that does hold: the charge has drained by then
C40_ChargeDrained ==
    C40_Ceased => scroll_smoother.charge_v = 0 /\ scroll_smoother.charge_h = 0

\* a single flick of ten notches: 0.8 s later the charge is gone, the flag
\* is still set and the velocity is still above one notch per frame
C40_StuckActive ==
    ~(/\ C40_Ceased
      /\ charged = [x |-> 0, y |-> 10, calls |-> 1]
      /\ scroll_smoother.discharge_rate = SCROLL_DISCHARGE_RATE
      /\ scroll_smoother.charge_v = 0
      /\ scroll_smoother.is_active
      /\ scroll_smoother.velocity_v > Unit)

\* a single notch: the flag is cleared, the velocity left under the 0.2
\* threshold stays
C40_StaleVelocity ==
    ~(/\ C40_Ceased
      /\ charged = [x |-> 0, y |-> 1, calls |-> 1]
      /\ ~scroll_smoother.is_active
      /\ scroll_smoother.velocity_v > 0)

====
